---- MODULE Spec2Model ----
(***************************************************************************)
(* Business-time normalisation and payment parsing of the restaurant       *)
(* sales dashboards (preprocessing.py, streamlit_app.py and the variants   *)
(* concatenated in preprocessing.py).                                      *)
(*                                                                         *)
(* The program is a set of batch functions.  Each component is modelled as *)
(* a small state machine whose initial states draw the function's inputs   *)
(* from bounded sets and whose actions apply the functions:                *)
(*   SpecTime     get_business_date / get_business_hour / hour labels      *)
(*   SpecPay      parse_payments on one payment descriptor                 *)
(*   SpecSummary  get_payment_method_summary over a table of descriptors   *)
(*   SpecRun      the whole pass over an uploaded batch of order rows       *)
(***************************************************************************)
EXTENDS Integers, Sequences, FiniteSets, TLC

VARIABLES
    pc,                      \* position of the pass that is running
    variant,                 \* which script's normaliser runs
    BUSINESS_DAY_START_HOUR, \* the module-level day-start hour of the script
    order_time,              \* the parsed 'Order Time' of the record
    business_date,           \* 'Business Date' / 'Business_Date' of the record
    business_hour,           \* 'Business Hour' / 'Business_Hour' of the record
    hour_label,              \* 'Hour Label' shown for the record's business hour
    payment_str,             \* the 'Payments' descriptor handed to parse_payments
    payments,                \* what parse_payments returned
    payment_total,           \* what extract_payment_total returned
    df,                      \* the table handed to get_payment_method_summary
    summary,                 \* the summary DataFrame of the last call
    first_summary,           \* the summary of the first call on this batch
    hashseed,                \* the string-hash seed of the interpreter process
    batch,                   \* the uploaded table as it was read
    caller_df,               \* the caller's table object handed to the pass
    result,                  \* what the pass returned (or that it raised)
    first_result,            \* what the first pass over this batch returned
    orders_split,            \* what split_orders_by_amount returned
    sales_orders_files,      \* the sales-orders files uploaded in the sidebar
    df_orders,               \* the combined orders table of the dashboard
    kpis                     \* the figures of the Sales Overview tab

vars == << pc, variant, BUSINESS_DAY_START_HOUR, order_time, business_date,
           business_hour, hour_label, payment_str, payments, payment_total, df,
           summary,
           first_summary, hashseed, batch, caller_df, result, first_result,
           orders_split, sales_orders_files, df_orders, kpis >>

timeVars == << variant, BUSINESS_DAY_START_HOUR, order_time, business_date,
               business_hour, hour_label >>
payVars == << payment_str, payments, payment_total >>
sumVars == << df, summary, first_summary >>
runVars == << hashseed, batch, caller_df, result, first_result, orders_split >>
loadVars == << sales_orders_files, df_orders, kpis >>

(***************************************************************************)
(* Bounds of the model.                                                    *)
(***************************************************************************)
MaxYear == 2025
\* longest descriptor enumerated character by character
MaxStrLen == 5
\* most tokens of a descriptor built from whole tokens
MaxTokens == 2
\* most rows of a table handed to get_payment_method_summary
MaxRows == 2

(***************************************************************************)
(* Python values.  A date is [year, month, day]; a timestamp adds hour and *)
(* minute.  None in a date column is NoDate, in an integer column NoHour,  *)
(* in a label column NoLabel; a string is the sequence of its characters.  *)
(***************************************************************************)
NaT == [isna |-> TRUE]
NoDate == [none |-> TRUE]
\* a missing descriptor cell: None, or the NaN pandas reads an empty cell as
\* (a string is a sequence of single characters, so neither is a string)
None == << "None" >>
NaN == << "nan" >>
NoHour == 0 - 1
NoLabel == "None"
\* no table, and a call that has not been made
NoFrame == [none |-> TRUE]
NotRun == [ran |-> FALSE]

(***************************************************************************)
(* Calendar: the proleptic Gregorian ordinal that timedelta arithmetic on  *)
(* a timezone-naive timestamp goes through.                                *)
(***************************************************************************)
IsLeap(y) == (y % 4 = 0) /\ ((y % 100 # 0) \/ (y % 400 = 0))

DaysInMonth(y, m) ==
    IF m = 2 THEN (IF IsLeap(y) THEN 29 ELSE 28)
    ELSE IF m \in {4, 6, 9, 11} THEN 30 ELSE 31

DaysBeforeYear(y) ==
    LET p == y - 1 IN p * 365 + (p \div 4) - (p \div 100) + (p \div 400)

\* the days of a common year before the first of each month
DAYS_BEFORE_MONTH == << 0, 31, 59, 90, 120, 151, 181, 212, 243, 273, 304, 334 >>

DaysBeforeMonth(y, m) ==
    DAYS_BEFORE_MONTH[m] + (IF m > 2 /\ IsLeap(y) THEN 1 ELSE 0)

\* date.toordinal()
ToOrdinal(d) == DaysBeforeYear(d.year) + DaysBeforeMonth(d.year, d.month) + d.day

\* date.fromordinal(n)
FromOrdinal(n) ==
    LET y == CHOOSE yy \in 2022..(MaxYear + 2) :
                 DaysBeforeYear(yy) < n /\ n <= DaysBeforeYear(yy + 1)
        r == n - DaysBeforeYear(y)
        m == CHOOSE mm \in 1..12 :
                 DaysBeforeMonth(y, mm) < r
                 /\ r <= DaysBeforeMonth(y, mm) + DaysInMonth(y, mm)
    IN  [year |-> y, month |-> m, day |-> r - DaysBeforeMonth(y, m)]

\* Timestamp.date()
DateOf(t) == [year |-> t.year, month |-> t.month, day |-> t.day]

\* Timestamp - timedelta(days=n): the same wall-clock time n days earlier.
MinusDays(t, n) ==
    LET d == FromOrdinal(ToOrdinal(DateOf(t)) - n)
    IN  [t EXCEPT !.year = d.year, !.month = d.month, !.day = d.day]

(***************************************************************************)
(* Strings: str.strip, re.split(r',\s*', s).                               *)
(***************************************************************************)
Whitespace == {" ", "\t", "\n"}
Digits == {"0", "1", "2", "3", "4", "5", "6", "7", "8", "9"}

RECURSIVE lstrip(_, _)
lstrip(s, chars) ==
    IF s # <<>> /\ Head(s) \in chars THEN lstrip(Tail(s), chars) ELSE s

RECURSIVE rstrip(_, _)
rstrip(s, chars) ==
    IF s # <<>> /\ s[Len(s)] \in chars
    THEN rstrip(SubSeq(s, 1, Len(s) - 1), chars) ELSE s

\* s.strip() with chars = Whitespace, s.strip('"') with chars = {"\""}
strip(s, chars) == rstrip(lstrip(s, chars), chars)

\* the pattern written r',\s+': a comma with no space after it does not cut
RECURSIVE re_split_plus(_)
re_split_plus(s) ==
    LET cuts == {i \in 1..(Len(s) - 1) : s[i] = "," /\ s[i + 1] \in Whitespace}
    IN  IF cuts = {} THEN << s >>
        ELSE LET i == CHOOSE c \in cuts : \A d \in cuts : c <= d
                 rest == lstrip(SubSeq(s, i + 1, Len(s)), Whitespace)
             IN  << SubSeq(s, 1, i - 1) >> \o re_split_plus(rest)

\* re.split(r',\s*', s): cut at every comma together with the whitespace
\* that follows it
RECURSIVE re_split(_)
re_split(s) ==
    LET commas == {i \in 1..Len(s) : s[i] = ","}
    IN  IF commas = {} THEN << s >>
        ELSE LET i == CHOOSE c \in commas : \A d \in commas : c <= d
                 rest == lstrip(SubSeq(s, i + 1, Len(s)), Whitespace)
             IN  << SubSeq(s, 1, i - 1) >> \o re_split(rest)

(***************************************************************************)
(* re.match(r'(.+?)\s*-\s*([\d.]+)', part)                                 *)
(***************************************************************************)
NoMatch == [matched |-> FALSE]

\* the longest prefix of s made of characters of chars
RECURSIVE Run(_, _)
Run(s, chars) ==
    IF s # <<>> /\ Head(s) \in chars
    THEN << Head(s) >> \o Run(Tail(s), chars) ELSE <<>>

\* \s*-\s*([\d.]+) at the head of s: group 2, or <<>> when it does not match
MatchTail(s) ==
    LET a == lstrip(s, Whitespace)
    IN  IF a = <<>> \/ Head(a) # "-" THEN <<>>
        ELSE Run(lstrip(Tail(a), Whitespace), Digits \cup {"."})

\* (.+?) takes the fewest characters (none of them a newline) after which
\* the tail matches
re_match(part) ==
    LET ks == {k \in 1..Len(part) :
                  /\ \A j \in 1..k : part[j] # "\n"
                  /\ MatchTail(SubSeq(part, k + 1, Len(part))) # <<>>}
    IN  IF ks = {} THEN NoMatch
        ELSE LET k == CHOOSE x \in ks : \A y \in ks : x <= y
             IN  [matched |-> TRUE,
                  group1 |-> SubSeq(part, 1, k),
                  group2 |-> MatchTail(SubSeq(part, k + 1, Len(part)))]

(***************************************************************************)
(* float: binary floating point with round-to-nearest-even.  A value is    *)
(* [m, e] = m * 2^e with 2^(MantBits-1) <= m < 2^MantBits, or zero.        *)
(* CPython's float has a 53-bit significand; the model keeps a narrower    *)
(* one so that rounding occurs at the amounts it enumerates.               *)
(***************************************************************************)
MantBits == 4

RECURSIVE Pow(_, _)
Pow(b, n) == IF n = 0 THEN 1 ELSE b * Pow(b, n - 1)

FZero == [m |-> 0, e |-> 0]

\* the float nearest to n * 2^e (n >= 0), ties to the even significand
RECURSIVE FRound(_, _)
FRound(n, e) ==
    IF n = 0 THEN FZero
    ELSE IF n < Pow(2, MantBits - 1) THEN FRound(2 * n, e - 1)
    ELSE IF n < Pow(2, MantBits) THEN [m |-> n, e |-> e]
    ELSE LET sh == CHOOSE x \in 1..31 :
                      /\ n \div Pow(2, x) < Pow(2, MantBits)
                      /\ n \div Pow(2, x - 1) >= Pow(2, MantBits)
             q == n \div Pow(2, sh)
             r == n % Pow(2, sh)
             half == Pow(2, sh - 1)
             up == IF r > half \/ (r = half /\ q % 2 = 1) THEN 1 ELSE 0
         IN  IF q + up = Pow(2, MantBits)
             THEN [m |-> Pow(2, MantBits - 1), e |-> e + sh + 1]
             ELSE [m |-> q + up, e |-> e + sh]

\* float + float
FAdd(a, b) ==
    LET lo == IF a.e <= b.e THEN a.e ELSE b.e
    IN  FRound(a.m * Pow(2, a.e - lo) + b.m * Pow(2, b.e - lo), lo)

\* a < b
FLess(a, b) ==
    IF a.m = 0 \/ b.m = 0 THEN a.m = 0 /\ b.m # 0
    ELSE a.e < b.e \/ (a.e = b.e /\ a.m < b.m)

\* the integer a run of digits denotes
RECURSIVE DigitsValue(_)
DigitsValue(s) ==
    IF s = <<>> THEN 0
    ELSE 10 * DigitsValue(SubSeq(s, 1, Len(s) - 1))
         + (CHOOSE d \in 0..9 : ToString(d) = s[Len(s)])

\* the float nearest to num / den (num >= 0, den > 0): the quotient is
\* taken with enough bits, plus a sticky bit for the remainder
RECURSIVE FDivide(_, _, _)
FDivide(num, den, b) ==
    IF num = 0 THEN FZero
    ELSE IF num * Pow(2, b) < den * Pow(2, MantBits + 1)
    THEN FDivide(num, den, b + 1)
    ELSE LET q == (num * Pow(2, b)) \div den
             sticky == IF (num * Pow(2, b)) % den = 0 THEN 0 ELSE 1
         IN  FRound(2 * q + sticky, 0 - b - 1)

ValueError == [error |-> "ValueError"]

\* float(s) for s drawn from [\d.]+ : digits with at most one decimal
\* point and at least one digit, anything else raises ValueError
float(s) ==
    LET dots == {i \in 1..Len(s) : s[i] = "."}
    IN  IF Cardinality(dots) > 1 \/ Len(s) = Cardinality(dots) THEN ValueError
        ELSE IF dots = {} THEN FDivide(DigitsValue(s), 1, 0)
        ELSE LET i == CHOOSE d \in dots : TRUE
                 whole == SubSeq(s, 1, i - 1)
                 frac == SubSeq(s, i + 1, Len(s))
             IN  FDivide(DigitsValue(whole \o frac), Pow(10, Len(frac)), 0)

(***************************************************************************)
(* parse_payments                                                          *)
(***************************************************************************)
Returned(v) == [raised |-> FALSE, value |-> v]
Raised(x) == [raised |-> TRUE, value |-> x]

\* pd.isna(x)
isna(x) == x = None \/ x = NaN

\* the loop without its try/except: a ValueError of float() escapes
RECURSIVE parse_parts_noexcept(_, _, _)
parse_parts_noexcept(parts, i, acc) ==
    IF i > Len(parts) THEN Returned(acc)
    ELSE LET part == strip(strip(parts[i], Whitespace), {"\""})
             match == re_match(part)
         IN  IF ~match.matched THEN parse_parts_noexcept(parts, i + 1, acc)
             ELSE LET method == strip(match.group1, Whitespace)
                      amount == float(match.group2)
                  IN  IF amount = ValueError THEN Raised(ValueError)
                      ELSE parse_parts_noexcept(parts, i + 1,
                              Append(acc, [method |-> method, amount |-> amount]))

\* the for loop over parts, from part i on, with the entries gathered so far
RECURSIVE parse_parts(_, _, _)
parse_parts(parts, i, acc) ==
    IF i > Len(parts) THEN Returned(acc)
    ELSE LET part == strip(strip(parts[i], Whitespace), {"\""})
             match == re_match(part)
         IN  IF ~match.matched THEN parse_parts(parts, i + 1, acc)
             ELSE LET method == strip(match.group1, Whitespace)
                      amount == float(match.group2)
                  IN  IF amount = ValueError
                      THEN parse_parts(parts, i + 1, acc)   \* except: continue
                      ELSE parse_parts(parts, i + 1,
                              Append(acc, [method |-> method, amount |-> amount]))

\* the guard ending in a bare return
parse_payments_bare_return(s) ==
    IF isna(s) \/ s = <<>> THEN Returned(None)
    ELSE parse_parts(re_split(s), 1, <<>>)

parse_payments(s) ==
    IF isna(s) \/ s = <<>> THEN Returned(<<>>)
    ELSE parse_parts(re_split(s), 1, <<>>)

(***************************************************************************)
(* get_payment_method_summary.  A dict is the sequence of its items in     *)
(* insertion order; a DataFrame the sequence of its rows.                  *)
(***************************************************************************)
\* row.get(key, default)
row_get(row, key, default) == IF key \in DOMAIN row THEN row[key] ELSE default

\* d.get(k, default)
dict_get(d, k, default) ==
    IF \E i \in 1..Len(d) : d[i].key = k
    THEN d[CHOOSE i \in 1..Len(d) : d[i].key = k].value
    ELSE default

\* d[k] = v
dict_set(d, k, v) ==
    IF \E i \in 1..Len(d) : d[i].key = k
    THEN [i \in 1..Len(d) |-> IF d[i].key = k THEN [key |-> k, value |-> v] ELSE d[i]]
    ELSE Append(d, [key |-> k, value |-> v])

\* the total overwritten instead of added to
RECURSIVE accumulate_overwrite(_, _)
accumulate_overwrite(entries, acc) ==
    IF entries = <<>> THEN acc
    ELSE LET method == Head(entries).method
             amount == Head(entries).amount
         IN  accumulate_overwrite(Tail(entries),
                [method_totals |-> dict_set(acc.method_totals, method, amount),
                 method_counts |->
                     dict_set(acc.method_counts, method,
                              dict_get(acc.method_counts, method, 0) + 1)])

\* the count started at 1 and incremented on the first entry too
RECURSIVE accumulate_count_from_one(_, _)
accumulate_count_from_one(entries, acc) ==
    IF entries = <<>> THEN acc
    ELSE LET method == Head(entries).method
             amount == Head(entries).amount
         IN  accumulate_count_from_one(Tail(entries),
                [method_totals |->
                     dict_set(acc.method_totals, method,
                              FAdd(dict_get(acc.method_totals, method, FZero), amount)),
                 method_counts |->
                     dict_set(acc.method_counts, method,
                              dict_get(acc.method_counts, method, 1) + 1)])

\* for method, amount in payments: the two dicts updated entry by entry
\* (the int 0 that get() defaults to is added as the float 0.0)
RECURSIVE accumulate(_, _)
accumulate(entries, acc) ==
    IF entries = <<>> THEN acc
    ELSE LET method == Head(entries).method
             amount == Head(entries).amount
         IN  accumulate(Tail(entries),
                [method_totals |->
                     dict_set(acc.method_totals, method,
                              FAdd(dict_get(acc.method_totals, method, FZero), amount)),
                 method_counts |->
                     dict_set(acc.method_counts, method,
                              dict_get(acc.method_counts, method, 0) + 1)])

\* for idx, row in df.iterrows()
RECURSIVE summary_loop(_, _, _)
summary_loop(table, i, acc) ==
    IF i > Len(table) THEN acc
    ELSE summary_loop(table, i + 1,
            accumulate(parse_payments(row_get(table[i], "Payments", <<>>)).value, acc))

\* pd.DataFrame({'Payment Method': ..., 'Total Amount': ..., 'Transaction Count': ...})
summary_frame(acc) ==
    [i \in 1..Len(acc.method_totals) |->
        [method |-> acc.method_totals[i].key,
         total |-> acc.method_totals[i].value,
         count |-> dict_get(acc.method_counts, acc.method_totals[i].key, 0)]]

\* the rows left in non-decreasing order of their totals
sort_values_asc(frame) ==
    LET n == Len(frame)
        perms == {p \in [1..n -> 1..n] : \A i, j \in 1..n : i # j => p[i] # p[j]}
    IN  { [i \in 1..n |-> frame[p[i]]] :
            p \in {q \in perms :
                      \A i \in 1..(n - 1) : ~FLess(frame[q[i + 1]].total, frame[q[i]].total)} }

\* the orders sort_values('Total Amount', ascending=False) may leave the
\* rows in: any arrangement with non-increasing totals (the default
\* quicksort fixes no order among equal totals)
sort_values_desc(frame) ==
    LET n == Len(frame)
        perms == {p \in [1..n -> 1..n] : \A i, j \in 1..n : i # j => p[i] # p[j]}
    IN  { [i \in 1..n |-> frame[p[i]]] :
            p \in {q \in perms :
                      \A i \in 1..(n - 1) : ~FLess(frame[q[i]].total, frame[q[i + 1]].total)} }

get_payment_method_summary(table) ==
    sort_values_desc(summary_frame(
        summary_loop(table, 1, [method_totals |-> <<>>, method_counts |-> <<>>])))

NotCalled == [called |-> FALSE]
Called(rows) == [called |-> TRUE, rows |-> rows]

(***************************************************************************)
(* extract_payment_total, the dashboards' total of a 'Payments' cell       *)
(* (defined inside preprocess_sales_orders).                               *)
(***************************************************************************)
\* s.split(sep)
RECURSIVE str_split(_, _)
str_split(s, sep) ==
    LET at == {i \in 1..Len(s) : s[i] = sep}
    IN  IF at = {} THEN << s >>
        ELSE LET i == CHOOSE c \in at : \A d \in at : c <= d
             IN  << SubSeq(s, 1, i - 1) >> \o str_split(SubSeq(s, i + 1, Len(s)), sep)

\* float(text) of a piece of a descriptor: digits with at most one point
float_text(s) ==
    IF s = <<>> \/ \E i \in 1..Len(s) : s[i] \notin Digits \cup {"."}
    THEN ValueError
    ELSE float(s)

\* the loop with the try inside it: a part that is not a number is skipped
RECURSIVE extract_parts_skip(_, _, _)
extract_parts_skip(parts, i, total) ==
    IF i > Len(parts) THEN total
    ELSE IF "-" \in {parts[i][k] : k \in 1..Len(parts[i])}
    THEN LET pieces == str_split(parts[i], "-")
             amount_part == strip(pieces[Len(pieces)], Whitespace)
             amount == float_text(amount_part)
         IN  IF amount = ValueError THEN extract_parts_skip(parts, i + 1, total)
             ELSE extract_parts_skip(parts, i + 1, FAdd(total, amount))
    ELSE extract_parts_skip(parts, i + 1, total)

\* the loop over parts; a ValueError of float() leaves it
RECURSIVE extract_parts(_, _, _)
extract_parts(parts, i, total) ==
    IF i > Len(parts) THEN total
    ELSE IF "-" \in {parts[i][k] : k \in 1..Len(parts[i])}
    THEN LET pieces == str_split(parts[i], "-")
             amount_part == strip(pieces[Len(pieces)], Whitespace)
             amount == float_text(amount_part)
         IN  IF amount = ValueError THEN ValueError
             ELSE extract_parts(parts, i + 1, FAdd(total, amount))
    ELSE extract_parts(parts, i + 1, total)

extract_payment_total(payment_str_) ==
    IF isna(payment_str_) \/ payment_str_ = <<>> THEN FZero
    ELSE LET total == extract_parts(str_split(payment_str_, ","), 1, FZero)
         IN  IF total = ValueError THEN FZero         \* except: return 0
             ELSE total

(***************************************************************************)
(* Business-time normaliser, preprocessing.py (day start written as the    *)
(* literal 6 in each function).                                            *)
(***************************************************************************)
\* the shift to the day before forgotten
get_business_date_noshift(t) ==
    IF t = NaT THEN NoDate
    ELSE DateOf(t)

get_business_date(t) ==
    IF t = NaT THEN NoDate
    ELSE IF t.hour < 6 THEN DateOf(MinusDays(t, 1))
    ELSE DateOf(t)

\* a missing timestamp counted with the first hour of the business day
get_business_hour_zero(t) ==
    IF t = NaT THEN 0
    ELSE (t.hour - 6) % 24

get_business_hour(t) ==
    IF t = NaT THEN NoHour
    ELSE (t.hour - 6) % 24

\* f"{n}" of a non-negative integer
Fmt(n) == ToString(n)

\* the label computed for a day starting at 5
get_business_hour_label_five(bh) ==
    IF bh = NoHour THEN NoLabel
    ELSE LET clock_hour == (bh + 5) % 24
         IN  IF clock_hour = 0 THEN "12 AM"
             ELSE IF clock_hour < 12 THEN Fmt(clock_hour) \o " AM"
             ELSE IF clock_hour = 12 THEN "12 PM"
             ELSE Fmt(clock_hour - 12) \o " PM"

get_business_hour_label(bh) ==
    IF bh = NoHour THEN NoLabel
    ELSE LET clock_hour == (bh + 6) % 24
         IN  IF clock_hour = 0 THEN "12 AM"
             ELSE IF clock_hour < 12 THEN Fmt(clock_hour) \o " AM"
             ELSE IF clock_hour = 12 THEN "12 PM"
             ELSE Fmt(clock_hour - 12) \o " PM"

(***************************************************************************)
(* streamlit_app.py: only the business date, from the module constant.     *)
(* There is no pd.isna guard: NaT.hour is nan, nan < h is False, and       *)
(* NaT.date() is NaT.                                                      *)
(***************************************************************************)
sales_get_business_date(dt) ==
    IF dt # NaT /\ dt.hour < BUSINESS_DAY_START_HOUR
    THEN DateOf(MinusDays(dt, 1))
    ELSE IF dt = NaT THEN NaT
    ELSE DateOf(dt)

(***************************************************************************)
(* The events dashboard (second script of preprocessing.py).               *)
(***************************************************************************)
\* the comparison slipped to <=
events_get_business_date_le(dt) ==
    IF dt = NaT THEN NoDate
    ELSE IF dt.hour <= BUSINESS_DAY_START_HOUR THEN DateOf(MinusDays(dt, 1))
    ELSE DateOf(dt)

events_get_business_date(dt) ==
    IF dt = NaT THEN NoDate
    ELSE IF dt.hour < BUSINESS_DAY_START_HOUR THEN DateOf(MinusDays(dt, 1))
    ELSE DateOf(dt)

\* the wrap-around forgotten
events_get_business_hour_nomod(dt) ==
    IF dt = NaT THEN NoHour
    ELSE dt.hour - BUSINESS_DAY_START_HOUR

events_get_business_hour(dt) ==
    IF dt = NaT THEN NoHour
    ELSE (dt.hour - BUSINESS_DAY_START_HOUR) % 24

get_clock_hour_from_business_hour(bh) == (bh + BUSINESS_DAY_START_HOUR) % 24

\* noon taken for a morning hour
format_hour_label_noon(clock_hour) ==
    IF clock_hour = 0 THEN "12 AM"
    ELSE IF clock_hour <= 12 THEN Fmt(clock_hour) \o " AM"
    ELSE Fmt(clock_hour - 12) \o " PM"

format_hour_label(clock_hour) ==
    IF clock_hour = 0 THEN "12 AM"
    ELSE IF clock_hour < 12 THEN Fmt(clock_hour) \o " AM"
    ELSE IF clock_hour = 12 THEN "12 PM"
    ELSE Fmt(clock_hour - 12) \o " PM"

(***************************************************************************)
(* The normaliser pass over one record.                                    *)
(***************************************************************************)
Variants == {"lounge", "sales", "events"}

\* The day-start hour in force: the literal of preprocessing.py, or the
\* module constant of the script (6 in streamlit_app.py, 5 in the events
\* dashboard; the model ranges it over every hour of the day).
StartHours == 0..23
DayStartHour == IF variant = "lounge" THEN 6 ELSE BUSINESS_DAY_START_HOUR

Years == 2024..MaxYear
Minutes == {0, 59}
\* first, middle and last day of every month
Days(y, m) == {1, 15, DaysInMonth(y, m)}
Timestamps ==
    UNION { UNION { { [year |-> y, month |-> m, day |-> d, hour |-> hh, minute |-> mi] :
                        d \in Days(y, m), hh \in 0..23, mi \in Minutes } :
                    m \in 1..12 } : y \in Years }

\* extract_payment_total has not been applied
NotExtracted == [extracted |-> FALSE]

PayIdle == /\ payment_str = <<>>
           /\ payments = <<>>
           /\ payment_total = NotExtracted
SumIdle == /\ df = <<>>
           /\ summary = NotCalled
           /\ first_summary = NotCalled
LoadIdle == /\ sales_orders_files = <<>>
            /\ df_orders = NotRun
            /\ kpis = NotRun
RunIdle == /\ hashseed = 0
           /\ batch = NoFrame
           /\ caller_df = NoFrame
           /\ result = NotRun
           /\ first_result = NotRun
           /\ orders_split = NotRun

InitTime ==
    /\ pc = "time"
    /\ variant \in Variants
    /\ BUSINESS_DAY_START_HOUR \in (IF variant = "lounge" THEN {6} ELSE StartHours)
    /\ order_time \in Timestamps
    /\ business_date = NoDate
    /\ business_hour = NoHour
    /\ hour_label = NoLabel
    /\ PayIdle
    /\ SumIdle
    /\ RunIdle
    /\ LoadIdle

\* df['Business Date'] = df['Order Time'].apply(get_business_date)
AddBusinessDate ==
    /\ pc = "time"
    /\ business_date' =
          (IF variant = "lounge" THEN get_business_date(order_time)
           ELSE IF variant = "sales" THEN sales_get_business_date(order_time)
           ELSE events_get_business_date(order_time))
    /\ pc' = "dated"
    /\ UNCHANGED << variant, BUSINESS_DAY_START_HOUR, order_time, business_hour,
                    hour_label, payVars, sumVars, runVars, loadVars >>

\* df['Business Hour'] = df['Order Time'].apply(get_business_hour)
AddBusinessHour ==
    /\ pc = "dated"
    /\ variant # "sales"
    /\ business_hour' =
          (IF variant = "lounge" THEN get_business_hour(order_time)
           ELSE events_get_business_hour(order_time))
    /\ pc' = "houred"
    /\ UNCHANGED << variant, BUSINESS_DAY_START_HOUR, order_time, business_date,
                    hour_label, payVars, sumVars, runVars, loadVars >>

\* ['Hour Label'] = ['Business Hour'].apply(get_business_hour_label)
AddHourLabel ==
    /\ pc = "houred"
    /\ hour_label' =
          (IF variant = "lounge" THEN get_business_hour_label(business_hour)
           ELSE format_hour_label(get_clock_hour_from_business_hour(business_hour)))
    /\ pc' = "labelled"
    /\ UNCHANGED << variant, BUSINESS_DAY_START_HOUR, order_time, business_date,
                    business_hour, payVars, sumVars, runVars, loadVars >>

NextTime == AddBusinessDate \/ AddBusinessHour \/ AddHourLabel

SpecTime == InitTime /\ [][NextTime]_vars

(***************************************************************************)
(* Claims about the business-time normaliser (checked under SpecTime).     *)
(***************************************************************************)
DateDone == pc \in {"dated", "houred", "labelled"}
HourDone == pc \in {"houred", "labelled"}

\* The day before a calendar date, by the calendar's rules.
PrevDay(d) ==
    IF d.day > 1 THEN [d EXCEPT !.day = d.day - 1]
    ELSE IF d.month > 1
         THEN [d EXCEPT !.month = d.month - 1,
                        !.day = DaysInMonth(d.year, d.month - 1)]
    ELSE [year |-> d.year - 1, month |-> 12, day |-> 31]

\* C1: for every day-start hour h and every non-null timestamp t, the
\* business date is t's calendar date when t.hour >= h and the calendar day
\* before it when t.hour < h, across month and year boundaries too.
C1_BusinessDate ==
    DateDone =>
        business_date = (IF order_time.hour >= DayStartHour
                         THEN DateOf(order_time)
                         ELSE PrevDay(DateOf(order_time)))

\* C1 witness: an early-morning order on 1 January dated 31 December of the
\* year before.
C1_Witness ==
    /\ DateDone
    /\ order_time.hour < DayStartHour
    /\ order_time.month = 1 /\ order_time.day = 1
    /\ business_date = [year |-> order_time.year - 1, month |-> 12, day |-> 31]

\* C2: the business hour is an integer in 0..23, congruent to
\* t.hour - h modulo 24, and 0 exactly when t.hour = h.
C2_BusinessHour ==
    HourDone =>
        /\ business_hour \in 0..23
        /\ \E k \in {0, 1} : business_hour = order_time.hour - DayStartHour + 24 * k
        /\ (business_hour = 0) <=> (order_time.hour = DayStartHour)

\* C2 witness: an hour before the day start wraps to the end of the
\* business day.
C2_Witness ==
    /\ HourDone
    /\ order_time.hour < DayStartHour
    /\ business_hour = 24 - (DayStartHour - order_time.hour)
    /\ business_hour = 20

\* Standard 12-hour clock labels of the hours 0..23.
ClockLabel12 ==
    << "12 AM", "1 AM", "2 AM", "3 AM", "4 AM", "5 AM", "6 AM", "7 AM",
       "8 AM", "9 AM", "10 AM", "11 AM", "12 PM", "1 PM", "2 PM", "3 PM",
       "4 PM", "5 PM", "6 PM", "7 PM", "8 PM", "9 PM", "10 PM", "11 PM" >>

\* C3: round trip: the label of the business hour of t is the standard
\* 12-hour clock label of t.hour, for every day-start hour.
C3_LabelRoundTrip ==
    pc = "labelled" => hour_label = ClockLabel12[order_time.hour + 1]

\* C3 witness: h = 6 and 02:00 give business hour 20 and the label "2 AM".
C3_Witness ==
    /\ pc = "labelled"
    /\ DayStartHour = 6
    /\ order_time.hour = 2
    /\ business_hour = 20
    /\ hour_label = "2 AM"

\* the day-start hours under which the computed business hour is that of
\* the timestamp, and those under which the label is that of the business hour
StartHoursOfHour == {h \in StartHours : business_hour = (order_time.hour - h) % 24}
StartHoursOfLabel ==
    {h \in StartHours : hour_label = ClockLabel12[((business_hour + h) % 24) + 1]}

\* C17: within a run the day-start hour is one constant: it is never
\* reassigned, the business date rolls back exactly below it, and it is the
\* only start hour that explains the business hour and the only one that
\* explains the hour label.
C17_SingleStartHour ==
    /\ [](/\ DateDone =>
                 ((business_date = DateOf(order_time))
                      <=> (order_time.hour >= DayStartHour))
          /\ HourDone => StartHoursOfHour = {DayStartHour}
          /\ pc = "labelled" => StartHoursOfLabel = {DayStartHour})
    /\ [][BUSINESS_DAY_START_HOUR' = BUSINESS_DAY_START_HOUR /\ variant' = variant]_vars

\* C17 witness: the events dashboard with its constant 5: an order at 05:59
\* keeps its calendar date, has business hour 0 and the label "5 AM".
C17_Witness ==
    /\ pc = "labelled"
    /\ variant = "events"
    /\ BUSINESS_DAY_START_HOUR = 5
    /\ order_time.hour = 5
    /\ order_time.minute = 59
    /\ business_date = DateOf(order_time)
    /\ business_hour = 0
    /\ hour_label = "5 AM"

(***************************************************************************)
(* The business date and hour as a shifted clock (checked under SpecTime). *)
(***************************************************************************)
\* the instant k hours after t (before it when k < 0), by the ordinal of
\* its date
PlusHours(t, k) ==
    LET hours == ToOrdinal(DateOf(t)) * 24 + t.hour + k
        d == FromOrdinal(hours \div 24)
    IN  [t EXCEPT !.year = d.year, !.month = d.month, !.day = d.day,
                  !.hour = hours % 24]

\* the business date and hour the variant in force gives a timestamp
BusinessDateOf(t) ==
    IF variant = "lounge" THEN get_business_date(t)
    ELSE IF variant = "sales" THEN sales_get_business_date(t)
    ELSE events_get_business_date(t)

BusinessHourOf(t) ==
    IF variant = "lounge" THEN get_business_hour(t) ELSE events_get_business_hour(t)

\* The day after a calendar date, by the calendar's rules.
NextDay(d) ==
    IF d.day < DaysInMonth(d.year, d.month) THEN [d EXCEPT !.day = d.day + 1]
    ELSE IF d.month < 12 THEN [d EXCEPT !.month = d.month + 1, !.day = 1]
    ELSE [year |-> d.year + 1, month |-> 1, day |-> 1]

\* the timestamp k hours after t, for k up to 48
Later(t, k) ==
    LET h == t.hour + k
        d == IF h < 24 THEN DateOf(t)
             ELSE IF h < 48 THEN NextDay(DateOf(t))
             ELSE NextDay(NextDay(DateOf(t)))
    IN  [t EXCEPT !.year = d.year, !.month = d.month, !.day = d.day, !.hour = h % 24]

\* date d1 is before date d2
Before(d1, d2) ==
    \/ d1.year < d2.year
    \/ d1.year = d2.year /\ d1.month < d2.month
    \/ d1.year = d2.year /\ d1.month = d2.month /\ d1.day < d2.day

\* (d1, h1) <= (d2, h2), dates first
LexLeq(d1, h1, d2, h2) == Before(d1, d2) \/ (d1 = d2 /\ h1 <= h2)

\* how many hours after a timestamp the later ones are taken
Horizon == 25

\* the later timestamps keep the order and leave the business date within
\* 24 hours
LaterOrdered(k) ==
    \E t2 \in {Later(order_time, k)} : \E d2 \in {BusinessDateOf(t2)} :
        /\ LexLeq(business_date, business_hour, d2, BusinessHourOf(t2))
        /\ d2 = business_date => k < 24

\* C28: the business date and hour of t are the calendar date and the clock
\* hour of the instant h hours before t; so for every later timestamp t2
\* the pair (business date, business hour) of t is lexicographically <=
\* that of t2, and a timestamp of the same business date is less than 24
\* hours later.
C28_ShiftedClock ==
    /\ DateDone => business_date = DateOf(PlusHours(order_time, 0 - DayStartHour))
    /\ pc = "houred" =>
          /\ business_hour = PlusHours(order_time, 0 - DayStartHour).hour
          /\ \A k \in 0..Horizon : LaterOrdered(k)

\* C28 witness: an order of 1 January before the day start belongs to
\* 31 December; the timestamp that ends its business day still has that
\* business date and the one an hour later has the next.
C28_Witness ==
    /\ pc = "houred"
    /\ order_time.month = 1 /\ order_time.day = 1
    /\ order_time.hour < DayStartHour
    /\ business_date = [year |-> order_time.year - 1, month |-> 12, day |-> 31]
    /\ business_hour = 24 - (DayStartHour - order_time.hour)
    /\ BusinessDateOf(Later(order_time, 23 - business_hour)) = business_date
    /\ BusinessHourOf(Later(order_time, 23 - business_hour)) = 23
    /\ BusinessDateOf(Later(order_time, 24 - business_hour)) = DateOf(order_time)

(***************************************************************************)
(* parse_payments on one descriptor.                                       *)
(***************************************************************************)
\* one character of every class the parser tells apart: letter, hyphen,
\* space, comma, digit, decimal point, quote
PayChars == {"V", "-", " ", ",", "1", ".", "\""}

\* every string of n of these characters
Strings(n) == [1..n -> PayChars]

\* descriptors built from whole tokens
MethodTexts == { << "V" >>, << "C" >> }
HyphenTexts == { << "-" >>, << " ", "-", " " >> }
AmountTexts == { << "1" >>, << "2", ".", "5" >>, << ".", "5" >> }
TokenTexts ==
    { m \o h \o a : m \in MethodTexts, h \in HyphenTexts, a \in AmountTexts }
    \cup { << "A", " ", "P", " ", "-", " ", "1", "0" >>,   \* A P - 10
           << "C", " ", "-", " ", "a", "b", "c" >>,        \* C - abc
           << "C" >>,                                      \* C
           << >>,
           << "-", " ", "1" >>,                            \* - 1
           << "V", "-", "." >>,                            \* V-.
           << "V", "-", "1", "a" >>,                       \* V-1a
           << "V", "-", "1", " ", "-", " ", "2" >>,        \* V-1 - 2
           << "G", "-", "C", " ", "-", " ", "5" >> }       \* G-C - 5
CommaTexts == { << "," >>, << ",", " " >> }

RECURSIVE Descriptors(_)
Descriptors(n) ==
    IF n = 1 THEN TokenTexts
    ELSE { d \o c \o t : d \in Descriptors(n - 1), c \in CommaTexts, t \in TokenTexts }

TimeIdle == /\ variant = "lounge"
            /\ BUSINESS_DAY_START_HOUR = 6
            /\ order_time = NaT
            /\ business_date = NoDate
            /\ business_hour = NoHour
            /\ hour_label = NoLabel

InitPay ==
    /\ pc = "pay"
    /\ \/ payment_str \in {None, NaN}
       \/ \E n \in 0..MaxStrLen : payment_str \in Strings(n)
       \/ \E n \in 1..MaxTokens : payment_str \in Descriptors(n)
    /\ payments = <<>>
    /\ payment_total = NotExtracted
    /\ TimeIdle
    /\ SumIdle
    /\ RunIdle
    /\ LoadIdle

\* payments = parse_payments(row.get('Payments', ''))
ParsePayments ==
    /\ pc = "pay"
    /\ payments' = parse_payments(payment_str)
    /\ pc' = "parsed"
    /\ UNCHANGED << payment_str, payment_total, timeVars, sumVars, runVars, loadVars >>

\* df['Payment_Total'] = df['Payments'].apply(extract_payment_total), for
\* the same cell
ExtractPaymentTotal ==
    /\ pc = "parsed"
    /\ payment_total' = extract_payment_total(payment_str)
    /\ pc' = "totalled"
    /\ UNCHANGED << payment_str, payments, timeVars, sumVars, runVars, loadVars >>

NextPay == ParsePayments \/ ExtractPaymentTotal

SpecPay == InitPay /\ [][NextPay]_vars

(***************************************************************************)
(* Claims about parse_payments (checked under SpecPay).  The tokens of a   *)
(* descriptor are taken here by the grammar of the specification: pieces   *)
(* between commas, whitespace and quotes trimmed, method and amount on the *)
(* two sides of a hyphen.                                                  *)
(***************************************************************************)
Parsed == pc = "parsed" /\ ~isna(payment_str)

RECURSIVE CommaPieces(_)
CommaPieces(s) ==
    IF \A i \in 1..Len(s) : s[i] # "," THEN << s >>
    ELSE LET i == CHOOSE c \in 1..Len(s) :
                      s[c] = "," /\ \A d \in 1..(c - 1) : s[d] # ","
         IN  << SubSeq(s, 1, i - 1) >> \o CommaPieces(SubSeq(s, i + 1, Len(s)))

Trim(tok) == strip(strip(tok, Whitespace), {"\""})
Tokens(s) == [i \in 1..Len(CommaPieces(s)) |-> Trim(CommaPieces(s)[i])]

Hyphens(t) == {i \in 1..Len(t) : t[i] = "-"}
MethodAt(t, i) == strip(SubSeq(t, 1, i - 1), Whitespace)
AmountAt(t, i) == strip(SubSeq(t, i + 1, Len(t)), Whitespace)

\* a run of digits with at most one decimal point
IsNumber(a) ==
    /\ \A i \in 1..Len(a) : a[i] \in Digits \cup {"."}
    /\ \E i \in 1..Len(a) : a[i] \in Digits
    /\ Cardinality({i \in 1..Len(a) : a[i] = "."}) <= 1

\* <method> - <number> read at hyphen i
FormAt(t, i) == MethodAt(t, i) # <<>> /\ IsNumber(AmountAt(t, i))
EntryAt(t, i) == [method |-> MethodAt(t, i), amount |-> float(AmountAt(t, i))]

\* a well-formed token "M - A": one hyphen, a method before it, a number
\* after it
WellFormed(t) == Cardinality(Hyphens(t)) = 1 /\ \A i \in Hyphens(t) : FormAt(t, i)
\* a token that is <method> - <number> at none of its hyphens
Malformed(t) == \A i \in Hyphens(t) : ~FormAt(t, i)

TheHyphen(t) == CHOOSE i \in Hyphens(t) : TRUE
LastHyphen(t) == CHOOSE i \in Hyphens(t) : \A j \in Hyphens(t) : j <= i

\* the entries of the well-formed tokens among toks, in token order
RECURSIVE EntriesOf(_)
EntriesOf(toks) ==
    IF toks = <<>> THEN <<>>
    ELSE (IF WellFormed(Head(toks))
          THEN << EntryAt(Head(toks), TheHyphen(Head(toks))) >> ELSE <<>>)
         \o EntriesOf(Tail(toks))

\* C4: a descriptor of n well-formed tokens "M_i - A_i" separated by a
\* comma (and optional whitespace) yields exactly the n entries (M_i, A_i)
\* in token order, the method stripped of surrounding whitespace.
C4_WellFormedTokens ==
    (Parsed /\ \A i \in 1..Len(Tokens(payment_str)) : WellFormed(Tokens(payment_str)[i]))
        => /\ payments = Returned(EntriesOf(Tokens(payment_str)))
           /\ Len(payments.value) = Len(Tokens(payment_str))

\* C4 witness: "V - 2.5, C - 1" gives [(V, 2.5), (C, 1)]
\* (2.5 = 10 * 2^-2 and 1 = 8 * 2^-3 as floats of MantBits = 4 bits).
C4_Witness ==
    /\ pc = "parsed"
    /\ payment_str = << "V", " ", "-", " ", "2", ".", "5", ",", " ", "C", " ", "-", " ", "1" >>
    /\ payments = Returned(<< [method |-> << "V" >>, amount |-> [m |-> 10, e |-> 0 - 2]],
                              [method |-> << "C" >>, amount |-> [m |-> 8, e |-> 0 - 3]] >>)

\* C5: for a token with more than one hyphen, the method is the text up to
\* the last hyphen of the token and the amount the number after it.
C5_LastHyphen ==
    (/\ Parsed
     /\ Len(Tokens(payment_str)) = 1
     /\ Cardinality(Hyphens(Tokens(payment_str)[1])) > 1
     /\ FormAt(Tokens(payment_str)[1], LastHyphen(Tokens(payment_str)[1])))
        => payments = Returned(<< EntryAt(Tokens(payment_str)[1],
                                          LastHyphen(Tokens(payment_str)[1])) >>)

\* C6: a token that is not <method> - <number> produces no entry, while
\* every well-formed token of the same descriptor still produces its entry.
C6_MalformedDropped ==
    (/\ Parsed
     /\ \A i \in 1..Len(Tokens(payment_str)) :
           WellFormed(Tokens(payment_str)[i]) \/ Malformed(Tokens(payment_str)[i]))
        => payments = Returned(EntriesOf(Tokens(payment_str)))

\* C7: on every string descriptor parse_payments returns a sequence without
\* raising, with at most one entry per comma-separated token.
C7_NeverRaises ==
    Parsed =>
        /\ ~payments.raised
        /\ Len(payments.value) <= Len(CommaPieces(payment_str))

\* C7 witness: "V-.,V-1" holds a token whose amount float() rejects and a
\* well-formed one; one entry comes back.
C7_Witness ==
    /\ pc = "parsed"
    /\ payment_str = << "V", "-", ".", ",", "V", "-", "1" >>
    /\ float(<< "." >>) = ValueError
    /\ payments = Returned(<< [method |-> << "V" >>, amount |-> float(<< "1" >>)] >>)

\* C8: a null (missing) descriptor and the empty string give the empty
\* sequence and raise nothing.
C8_NullOrEmpty ==
    (pc = "parsed" /\ (isna(payment_str) \/ payment_str = <<>>))
        => payments = Returned(<<>>)

\* C8 witness: parse_payments(None) has returned the empty sequence.
C8_Witness ==
    /\ pc = "parsed"
    /\ payment_str = None
    /\ payments.value = <<>>
    /\ ~payments.raised

(***************************************************************************)
(* get_payment_method_summary over a table, called again after the caller  *)
(* reorders the records or the entries of a record.                        *)
(***************************************************************************)
SumDescriptors ==
    { << "V", " ", "-", " ", "1", "0" >>,                               \* V - 10
      << "V", " ", "-", " ", "5" >>,                                    \* V - 5
      << "V", " ", "-", " ", "5", ",", " ", "C", " ", "-", " ", "3" >>,  \* V - 5, C - 3
      << "V", " ", "-", " ", "2", ".", "5", ",", " ", "C", " ", "-", " ", "1" >>,  \* V - 2.5, C - 1
      << "V", " ", "-", " ", "0", ".", "1", ",", " ", "V", " ", "-", " ", "1" >>,  \* V - 0.1, V - 1
      << "C", " ", "-", " ", "a", "b", "c" >>,                          \* C - abc
      << "M", "-", "1", ",", "x" >>,                                    \* M-1,x
      NaN }

\* tables of n rows; has_col is whether the table has a 'Payments' column
Tables(n, has_col) ==
    IF has_col
    THEN { [i \in 1..n |-> [OrderNo |-> i, Payments |-> f[i]]] :
             f \in [1..n -> SumDescriptors] }
    ELSE { [i \in 1..n |-> [OrderNo |-> i]] }

InitSummary ==
    /\ pc = "sum"
    /\ \E n \in 0..MaxRows : \E has_col \in BOOLEAN : df \in Tables(n, has_col)
    /\ summary = NotCalled
    /\ first_summary = NotCalled
    /\ TimeIdle
    /\ PayIdle
    /\ RunIdle
    /\ LoadIdle

\* summary = get_payment_method_summary(df)
GetPaymentMethodSummary ==
    /\ pc = "sum"
    /\ \E s \in get_payment_method_summary(df) :
          /\ summary' = Called(s)
          /\ first_summary' = (IF first_summary.called THEN first_summary ELSE Called(s))
    /\ pc' = "summed"
    /\ UNCHANGED << df, timeVars, payVars, runVars, loadVars >>

\* the caller hands over the same records with rows i and i+1 exchanged
ReorderRows ==
    /\ pc = "summed"
    /\ \E i \in 1..(Len(df) - 1) :
          df' = [df EXCEPT ![i] = df[i + 1], ![i + 1] = df[i]]
    /\ summary' = NotCalled
    /\ pc' = "sum"
    /\ UNCHANGED << first_summary, timeVars, payVars, runVars, loadVars >>

\* the pieces of a descriptor between its commas, trimmed
RECURSIVE Pieces(_)
Pieces(s) ==
    LET commas == {i \in 1..Len(s) : s[i] = ","}
    IN  IF commas = {} THEN << strip(s, Whitespace) >>
        ELSE LET i == CHOOSE c \in commas : \A d \in commas : c <= d
             IN  << strip(SubSeq(s, 1, i - 1), Whitespace) >>
                 \o Pieces(SubSeq(s, i + 1, Len(s)))

\* the pieces written back in the opposite order, ", " between them
RECURSIVE JoinReversed(_)
JoinReversed(ps) ==
    IF Len(ps) = 1 THEN ps[1]
    ELSE JoinReversed(Tail(ps)) \o << ",", " " >> \o Head(ps)

\* the same record with the entries of its descriptor in another order
ReorderEntries ==
    /\ pc = "summed"
    /\ \E i \in 1..Len(df) :
          /\ "Payments" \in DOMAIN df[i]
          /\ ~isna(df[i].Payments)
          /\ Len(Pieces(df[i].Payments)) > 1
          /\ df' = [df EXCEPT ![i].Payments = JoinReversed(Pieces(df[i].Payments))]
    /\ summary' = NotCalled
    /\ pc' = "sum"
    /\ UNCHANGED << first_summary, timeVars, payVars, runVars, loadVars >>

NextSummary == GetPaymentMethodSummary \/ ReorderRows \/ ReorderEntries

SpecSummary == InitSummary /\ [][NextSummary]_vars


(***************************************************************************)
(* Claims about get_payment_method_summary (checked under SpecSummary).    *)
(***************************************************************************)
\* every Payment Entry of the table, record by record
RECURSIVE AllEntries(_)
AllEntries(table) ==
    IF table = <<>> THEN <<>>
    ELSE parse_payments(row_get(Head(table), "Payments", <<>>)).value
         \o AllEntries(Tail(table))

MethodsOf(entries) == {entries[i].method : i \in 1..Len(entries)}
EntriesWith(entries, m) == SelectSeq(entries, LAMBDA en : en.method = m)

\* sum() of the amounts of a sequence of entries, in their order
RECURSIVE SumAmounts(_)
SumAmounts(entries) ==
    IF entries = <<>> THEN FZero
    ELSE FAdd(SumAmounts(SubSeq(entries, 1, Len(entries) - 1)),
              entries[Len(entries)].amount)

\* C9: the summary holds exactly the methods that occur in some Payment
\* Entry, each once, with total_amount the sum of the amounts of the
\* method's entries over all records and transaction_count their number.
C9_SummaryTotals ==
    summary.called =>
        LET es == AllEntries(df)
            rows == summary.rows
        IN  /\ {rows[i].method : i \in 1..Len(rows)} = MethodsOf(es)
            /\ Len(rows) = Cardinality(MethodsOf(es))
            /\ \A i \in 1..Len(rows) :
                  /\ rows[i].count = Len(EntriesWith(es, rows[i].method))
                  /\ rows[i].total = SumAmounts(EntriesWith(es, rows[i].method))

\* C9 witness: the entries (V,10), (V,5), (C,3) give V: total 15, count 2
\* and C: total 3, count 1.
C9_Witness ==
    /\ summary.called
    /\ Len(df) = 2
    /\ df[1] = [OrderNo |-> 1, Payments |-> << "V", " ", "-", " ", "1", "0" >>]
    /\ df[2] = [OrderNo |-> 2,
                Payments |-> << "V", " ", "-", " ", "5", ",", " ", "C", " ", "-", " ", "3" >>]
    /\ summary.rows = << [method |-> << "V" >>, total |-> [m |-> 15, e |-> 0], count |-> 2],
                         [method |-> << "C" >>, total |-> [m |-> 12, e |-> 0 - 2], count |-> 1] >>

\* the method -> {total_amount, transaction_count} mapping of a summary
Mapping(s) == {s.rows[i] : i \in 1..Len(s.rows)}
Counts(s) == {[method |-> s.rows[i].method, count |-> s.rows[i].count] : i \in 1..Len(s.rows)}

\* C10 (as claimed): whatever the order of the records and of the entries
\* within a record, the summary mapping is the same.
C10_OrderIndependent ==
    pc = "summed" => Mapping(summary) = Mapping(first_summary)

\* whether n * 2^e is a float
Representable(n, e) ==
    LET r == FRound(n, e)
    IN  IF r.e >= e THEN r.m * Pow(2, r.e - e) = n
        ELSE r.m = n * Pow(2, e - r.e)

\* the exact sum of the amounts with indices in S, in units of 2^lo
RECURSIVE ExactSum(_, _, _)
ExactSum(S, entries, lo) ==
    IF S = {} THEN 0
    ELSE LET i == CHOOSE x \in S : TRUE
         IN  entries[i].amount.m * Pow(2, entries[i].amount.e - lo)
             + ExactSum(S \ {i}, entries, lo)

\* no addition of amounts of one method rounds, in whatever order they are
\* added: every sum of some of them is a float
NoRounding(entries) ==
    \A m \in MethodsOf(entries) :
        LET es == EntriesWith(entries, m)
        IN  \A S \in (SUBSET (1..Len(es))) \ { {} } :
                LET lo == CHOOSE x \in {es[i].amount.e : i \in S} :
                              \A y \in {es[i].amount.e : i \in S} : x <= y
                IN  Representable(ExactSum(S, es, lo), lo)

\* C10 (amended): the methods and their transaction counts are the same for
\* every order of the records and of the entries within a record, and so
\* are the totals whenever no floating-point addition of the amounts rounds.
C10_OrderIndependentExact ==
    pc = "summed" =>
        /\ Counts(summary) = Counts(first_summary)
        /\ NoRounding(AllEntries(df)) => Mapping(summary) = Mapping(first_summary)

\* C10 witness: the records came back in another order, two entries of one
\* method were added without rounding, and the mapping is the same.
C10_Witness ==
    /\ pc = "summed"
    /\ Len(df) = 2
    /\ df[1].OrderNo = 2
    /\ NoRounding(AllEntries(df))
    /\ \E i \in 1..Len(summary.rows) : summary.rows[i].count >= 2
    /\ Mapping(summary) = Mapping(first_summary)

(***************************************************************************)
(* Timestamps as text.  A raw 'Order Time' cell is the sequence of its     *)
(* characters; strftime writes the layouts the exports use and             *)
(* pd.to_datetime(series, format=fmt) reads them back.  A format is the    *)
(* sequence of its directives and literal characters.                      *)
(***************************************************************************)
DigitChars == << "0", "1", "2", "3", "4", "5", "6", "7", "8", "9" >>

MonthAbbr ==
    << << "J", "a", "n" >>, << "F", "e", "b" >>, << "M", "a", "r" >>,
       << "A", "p", "r" >>, << "M", "a", "y" >>, << "J", "u", "n" >>,
       << "J", "u", "l" >>, << "A", "u", "g" >>, << "S", "e", "p" >>,
       << "O", "c", "t" >>, << "N", "o", "v" >>, << "D", "e", "c" >> >>

\* '%d-%b-%Y %I:%M %p'      01-May-2025 06:59 AM
FMT_DBY_IMP == << "%d", "-", "%b", "-", "%Y", " ", "%I", ":", "%M", " ", "%p" >>
\* '%m/%d/%Y %H:%M'         6/1/2025 7:07
FMT_MDY_HM == << "%m", "/", "%d", "/", "%Y", " ", "%H", ":", "%M" >>
\* '%Y-%m-%d %H:%M:%S'      2025-05-01 06:59:00
FMT_YMD_HMS == << "%Y", "-", "%m", "-", "%d", " ", "%H", ":", "%M", ":", "%S" >>
\* '%d/%m/%Y %H:%M'         01/05/2025 06:59
FMT_DMY_HM == << "%d", "/", "%m", "/", "%Y", " ", "%H", ":", "%M" >>
\* '%Y-%m-%d %H:%M'         2025-05-01 06:59
FMT_YMD_HM == << "%Y", "-", "%m", "-", "%d", " ", "%H", ":", "%M" >>
\* '%m/%d/%Y %H:%M:%S'
FMT_MDY_HMS == << "%m", "/", "%d", "/", "%Y", " ", "%H", ":", "%M", ":", "%S" >>

\* n written in decimal with at least w digits
RECURSIVE Zfill(_, _)
Zfill(n, w) ==
    IF n < 10 /\ w <= 1 THEN << DigitChars[n + 1] >>
    ELSE Zfill(n \div 10, w - 1) \o << DigitChars[(n % 10) + 1] >>

\* one directive of strftime; pad tells whether day, month and hour are
\* written with a leading zero
Written(t, d, pad) ==
    LET w == IF pad THEN 2 ELSE 1
        h12 == IF t.hour % 12 = 0 THEN 12 ELSE t.hour % 12
    IN  IF d = "%Y" THEN Zfill(t.year, 4)
        ELSE IF d = "%m" THEN Zfill(t.month, w)
        ELSE IF d = "%d" THEN Zfill(t.day, w)
        ELSE IF d = "%b" THEN MonthAbbr[t.month]
        ELSE IF d = "%H" THEN Zfill(t.hour, w)
        ELSE IF d = "%I" THEN Zfill(h12, w)
        ELSE IF d = "%M" THEN Zfill(t.minute, 2)
        ELSE IF d = "%S" THEN Zfill(t.second, 2)
        ELSE IF d = "%p" THEN (IF t.hour < 12 THEN << "A", "M" >> ELSE << "P", "M" >>)
        ELSE << d >>

RECURSIVE strftime(_, _, _)
strftime(t, fmt, pad) ==
    IF fmt = <<>> THEN <<>>
    ELSE Written(t, Head(fmt), pad) \o strftime(t, Tail(fmt), pad)

\* the fields strptime starts from: 1900-01-01 00:00:00, no %I and no %p read
NoFields ==
    [year |-> 1900, month |-> 1, day |-> 1, hour |-> 0, minute |-> 0,
     second |-> 0, I |-> NoHour, p |-> NoLabel]

\* the values the regular expression of a numeric directive accepts
FieldRange(d) ==
    IF d = "%Y" THEN 0..9999
    ELSE IF d \in {"%m", "%I"} THEN 1..12
    ELSE IF d = "%d" THEN 1..31
    ELSE IF d = "%H" THEN 0..23
    ELSE IF d = "%M" THEN 0..59
    ELSE 0..61

SetField(f, d, v) ==
    IF d = "%Y" THEN [f EXCEPT !.year = v]
    ELSE IF d = "%m" THEN [f EXCEPT !.month = v]
    ELSE IF d = "%d" THEN [f EXCEPT !.day = v]
    ELSE IF d = "%H" THEN [f EXCEPT !.hour = v]
    ELSE IF d = "%I" THEN [f EXCEPT !.I = v]
    ELSE IF d = "%M" THEN [f EXCEPT !.minute = v]
    ELSE [f EXCEPT !.second = v]

\* the format's regular expression matched against the whole of s, one
\* directive at a time: a blank of the format is \s+, %Y is four digits,
\* the other numbers one or two digits, a literal is itself; ValueError
\* when s does not match or text remains
RECURSIVE strptime_fields(_, _, _)
strptime_fields(s, fmt, f) ==
    IF fmt = <<>> THEN (IF s = <<>> THEN f ELSE ValueError)
    ELSE
      LET d == Head(fmt)
          after(k) == SubSeq(s, k + 1, Len(s))
      IN  IF d = " "
          THEN LET ws == Run(s, Whitespace)
               IN  IF ws = <<>> THEN ValueError
                   ELSE strptime_fields(after(Len(ws)), Tail(fmt), f)
          ELSE IF d = "%b"
          THEN IF Len(s) >= 3 /\ \E m \in 1..12 : MonthAbbr[m] = SubSeq(s, 1, 3)
               THEN strptime_fields(after(3), Tail(fmt),
                        [f EXCEPT !.month =
                            CHOOSE m \in 1..12 : MonthAbbr[m] = SubSeq(s, 1, 3)])
               ELSE ValueError
          ELSE IF d = "%p"
          THEN IF Len(s) >= 2 /\ SubSeq(s, 1, 2) \in {<< "A", "M" >>, << "P", "M" >>}
               THEN strptime_fields(after(2), Tail(fmt), [f EXCEPT !.p = s[1]])
               ELSE ValueError
          ELSE IF d \in {"%Y", "%m", "%d", "%H", "%I", "%M", "%S"}
          THEN LET w == IF d = "%Y" THEN 4 ELSE 2
                   run == Run(s, Digits)
                   k == IF Len(run) < w THEN Len(run) ELSE w
               IN  IF k = 0 \/ (d = "%Y" /\ k < 4) THEN ValueError
                   ELSE IF DigitsValue(SubSeq(s, 1, k)) \notin FieldRange(d)
                   THEN ValueError
                   ELSE strptime_fields(after(k), Tail(fmt),
                            SetField(f, d, DigitsValue(SubSeq(s, 1, k))))
          ELSE IF s # <<>> /\ Head(s) = d
               THEN strptime_fields(after(1), Tail(fmt), f)
               ELSE ValueError

\* the timestamp of the fields: %I with %p gives the hour of the day, and a
\* day the month does not have is a ValueError
strptime(s, fmt) ==
    LET f == strptime_fields(s, fmt, NoFields)
    IN  IF f = ValueError THEN ValueError
        ELSE IF f.day > DaysInMonth(f.year, f.month) THEN ValueError
        ELSE [year |-> f.year, month |-> f.month, day |-> f.day,
              hour |-> (IF f.I = NoHour THEN f.hour
                        ELSE IF f.p = "P" THEN (f.I % 12) + 12
                        ELSE IF f.p = "A" THEN f.I % 12
                        ELSE f.I),
              minute |-> f.minute, second |-> f.second]

(***************************************************************************)
(* DataFrames.  A column name is the sequence of its leading blanks, its   *)
(* text and its trailing blanks; a frame has its column names, the kind of *)
(* value each column holds (str, int64, float64, datetime64, date, label,  *)
(* list) and its rows, each the sequence of its cells in column order.     *)
(* The null of a str column is None or NaN, of a float64 column FNaN, of a *)
(* datetime64 column NaT, of a date column NoDate or NaT, of an int64      *)
(* column NoHour, of a label column NoLabel.                               *)
(***************************************************************************)
FNaN == [nan |-> TRUE]
KeyError == [error |-> "KeyError"]

DataFrame(columns, dtypes, rows) ==
    [columns |-> columns, dtypes |-> dtypes, rows |-> rows]

\* position of the first column called name, 0 when there is none
Loc(frame, name) ==
    LET hits == {i \in 1..Len(frame.columns) : frame.columns[i] = name}
    IN  IF hits = {} THEN 0 ELSE CHOOSE i \in hits : \A j \in hits : i <= j

\* name in df.columns
HasColumn(frame, name) == Loc(frame, name) # 0

\* df[name]
Column(frame, name) ==
    [r \in 1..Len(frame.rows) |-> frame.rows[r][Loc(frame, name)]]

\* df[name] = values
SetColumn(frame, name, dtype, values) ==
    IF HasColumn(frame, name)
    THEN [frame EXCEPT
            !.dtypes[Loc(frame, name)] = dtype,
            !.rows = [r \in 1..Len(frame.rows) |->
                        [frame.rows[r] EXCEPT ![Loc(frame, name)] = values[r]]]]
    ELSE [columns |-> Append(frame.columns, name),
          dtypes |-> Append(frame.dtypes, dtype),
          rows |-> [r \in 1..Len(frame.rows) |-> Append(frame.rows[r], values[r])]]

\* pd.isna of a cell of a column of the given kind
isnull(dtype, cell) ==
    IF dtype = "str" THEN isna(cell)
    ELSE IF dtype = "float64" THEN cell = FNaN
    ELSE IF dtype = "datetime64" THEN cell = NaT
    ELSE IF dtype = "date" THEN cell = NoDate \/ cell = NaT
    ELSE IF dtype = "int64" THEN cell = NoHour
    ELSE IF dtype = "label" THEN cell = NoLabel
    ELSE FALSE

\* the subsequence of s at the positions of keep, in order
RECURSIVE Select(_, _, _)
Select(s, keep, i) ==
    IF i > Len(s) THEN <<>>
    ELSE (IF i \in keep THEN << s[i] >> ELSE <<>>) \o Select(s, keep, i + 1)

\* df.columns.str.strip()
columns_str_strip(columns) ==
    [i \in 1..Len(columns) |-> strip(columns[i], Whitespace)]

\* df.dropna(axis=1, how='all'): the columns with at least one non-null cell
dropna_columns(frame) ==
    LET keep == {c \in 1..Len(frame.columns) :
                    \E r \in 1..Len(frame.rows) :
                        ~isnull(frame.dtypes[c], frame.rows[r][c])}
    IN  [columns |-> Select(frame.columns, keep, 1),
         dtypes |-> Select(frame.dtypes, keep, 1),
         rows |-> [r \in 1..Len(frame.rows) |-> Select(frame.rows[r], keep, 1)]]

\* the last row of each key kept instead of the first
drop_duplicates_last(frame, name) ==
    LET key == Column(frame, name)
        keep == {r \in 1..Len(frame.rows) :
                    \A q \in (r + 1)..Len(frame.rows) : key[q] # key[r]}
    IN  [frame EXCEPT !.rows = Select(frame.rows, keep, 1)]

\* df.drop_duplicates(subset=[name], keep='first')
drop_duplicates(frame, name) ==
    LET key == Column(frame, name)
        keep == {r \in 1..Len(frame.rows) : \A q \in 1..(r - 1) : key[q] # key[r]}
    IN  [frame EXCEPT !.rows = Select(frame.rows, keep, 1)]

(***************************************************************************)
(* pandas conversions of a column.                                         *)
(***************************************************************************)
\* one element under pd.to_datetime(..., format=fmt): a missing or empty
\* cell is NaT, any other text is read by the format
to_datetime_cell(cell, fmt) ==
    IF isna(cell) \/ cell = <<>> THEN NaT ELSE strptime(cell, fmt)

\* the outcome of a conversion whose elements were read as parsed: with
\* errors='raise' (the default) one element that does not match fails the
\* whole call, with errors='coerce' it becomes NaT
datetime_result(parsed, errors) ==
    IF errors = "coerce"
    THEN Returned([r \in 1..Len(parsed) |->
                      IF parsed[r] = ValueError THEN NaT ELSE parsed[r]])
    ELSE IF \E r \in 1..Len(parsed) : parsed[r] = ValueError
    THEN Raised(ValueError)
    ELSE Returned(parsed)

\* pd.to_datetime(values, format=fmt, errors=errors)
to_datetime(values, fmt, errors) ==
    datetime_result([r \in 1..Len(values) |-> to_datetime_cell(values[r], fmt)], errors)

\* pd.to_numeric(values, errors='coerce'): the number a text denotes, NaN
\* for a missing, blank or non-numeric cell
to_numeric_cell(cell) ==
    IF isna(cell) \/ cell = <<>> THEN FNaN
    ELSE IF \E i \in 1..Len(cell) : cell[i] \notin Digits \cup {"."} THEN FNaN
    ELSE IF float(cell) = ValueError THEN FNaN
    ELSE float(cell)

to_numeric(values) == [r \in 1..Len(values) |-> to_numeric_cell(values[r])]

\* Series.fillna(0) of a float64 column
fillna_0(values) ==
    [r \in 1..Len(values) |-> IF values[r] = FNaN THEN FZero ELSE values[r]]

\* Series.dt.hour
dt_hour(t) == IF t = NaT THEN NoHour ELSE t.hour

DayNames ==
    << "Monday", "Tuesday", "Wednesday", "Thursday", "Friday", "Saturday",
       "Sunday" >>

\* the day name taken from the business date of the timestamp
dt_day_name_business(t) ==
    IF t = NaT THEN NoLabel
    ELSE IF t.hour < DayStartHour
    THEN DayNames[((ToOrdinal(DateOf(MinusDays(t, 1))) + 6) % 7) + 1]
    ELSE DayNames[((ToOrdinal(DateOf(t)) + 6) % 7) + 1]

\* Series.dt.day_name(): date.weekday() is (toordinal() + 6) % 7, Monday 0
dt_day_name(t) ==
    IF t = NaT THEN NoLabel
    ELSE DayNames[((ToOrdinal(DateOf(t)) + 6) % 7) + 1]

\* Series.dt.to_period('M').astype(str): 'YYYY-MM', 'NaT' for NaT
dt_to_period_M_str(t) ==
    IF t = NaT THEN "NaT"
    ELSE ToString(t.year) \o "-"
         \o (IF t.month < 10 THEN "0" ELSE "") \o ToString(t.month)

(***************************************************************************)
(* preprocess_data (preprocessing.py).  A call gives back the argument     *)
(* object as the call left it (arg), the frame it returns (df) and the     *)
(* preprocessing log.                                                      *)
(***************************************************************************)
ORDER_NO == << "Order No" >>
ORDER_TIME == << "Order Time" >>
ORDER_AMOUNT == << "Order Amount" >>
PAYMENTS == << "Payments" >>
numeric_columns ==
    << ORDER_AMOUNT, << "Tax" >>, << "Amount Received" >>, << "Amount Returned" >> >>

\* one line of the preprocessing log: its wording and the number it quotes
LogLine(text, n) == [text |-> text, n |-> n]

\* for col in numeric_columns: if col in df.columns: df[col] = pd.to_numeric(...)
RECURSIVE convert_numeric(_, _)
convert_numeric(state, i) ==
    IF i > Len(numeric_columns) THEN state
    ELSE LET col == numeric_columns[i]
         IN  IF HasColumn(state.df, col)
             THEN convert_numeric(
                    [arg |-> state.arg,
                     df |-> SetColumn(state.df, col, "float64",
                                      to_numeric(Column(state.df, col))),
                     log |-> Append(state.log, LogLine("Converted to numeric", i))],
                    i + 1)
             ELSE convert_numeric(state, i + 1)

\* Series.apply(f)
Apply(values, f(_)) == [r \in 1..Len(values) |-> f(values[r])]

\* A call of preprocess_data is followed as a record of the argument
\* object as the call leaves it (arg), the frame df is bound to, and the
\* preprocessing log.

\* 1. df.columns = df.columns.str.strip(), on the argument itself
clean_column_names(arg) ==
    LET df1 == [arg EXCEPT !.columns = columns_str_strip(arg.columns)]
    IN  [arg |-> df1, df |-> df1,
         log |-> IF arg.columns # df1.columns
                 THEN << LogLine("Cleaned column names", 0) >> ELSE <<>>]

\* 2. df = df.dropna(axis=1, how='all'): a new frame from here on
drop_null_columns(s) ==
    LET df2 == dropna_columns(s.df)
    IN  [arg |-> s.arg, df |-> df2,
         log |-> IF Len(s.df.columns) # Len(df2.columns)
                 THEN Append(s.log, LogLine("Dropped columns with all null values",
                                            Len(s.df.columns) - Len(df2.columns)))
                 ELSE s.log]

\* the log line of step 3 for a frame of before rows cut to after rows
duplicates_logged(log, before, after) ==
    IF before > after
    THEN Append(log, LogLine("Removed duplicate orders", before - after))
    ELSE Append(log, LogLine("No duplicate orders found", 0))

\* 3. duplicates by 'Order No'
remove_duplicates(s) ==
    IF ~HasColumn(s.df, ORDER_NO) THEN s
    ELSE LET df3 == drop_duplicates(s.df, ORDER_NO)
         IN  [arg |-> s.arg, df |-> df3,
              log |-> duplicates_logged(s.log, Len(s.df.rows), Len(df3.rows))]

\* the converted 'Order Time' column stored, and counted in the log
order_time_stored(s, times) ==
    [arg |-> s.arg,
     df |-> SetColumn(s.df, ORDER_TIME, "datetime64", times),
     log |-> Append(s.log, LogLine("Converted 'Order Time' to datetime",
                       Cardinality({r \in 1..Len(times) : times[r] # NaT})))]

\* 4. 'Order Time' to datetime
convert_order_time(s) ==
    IF ~HasColumn(s.df, ORDER_TIME) THEN s
    ELSE order_time_stored(s,
             to_datetime(Column(s.df, ORDER_TIME), FMT_DBY_IMP, "coerce").value)

\* the four columns computed from the converted 'Order Time' column t
business_columns_added(s, t) ==
    [arg |-> s.arg,
     df |-> SetColumn(SetColumn(SetColumn(SetColumn(s.df,
                << "Business Date" >>, "date", Apply(t, get_business_date)),
                << "Business Hour" >>, "int64", Apply(t, get_business_hour)),
                << "Clock Hour" >>, "int64", Apply(t, dt_hour)),
                << "Day of Week" >>, "label", Apply(t, dt_day_name)),
     log |-> s.log \o << LogLine("Added Business Date column", 6),
                         LogLine("Added Business Hour column", 6) >>]

\* 5. business date and business hour
add_business_columns(s) ==
    IF ~HasColumn(s.df, ORDER_TIME) THEN s
    ELSE business_columns_added(s, Column(s.df, ORDER_TIME))

preprocess_data(arg) ==
    add_business_columns(
        convert_numeric(
            convert_order_time(
                remove_duplicates(drop_null_columns(clean_column_names(arg)))), 1))

(***************************************************************************)
(* process_payments_column and run_full_preprocessing.                     *)
(***************************************************************************)
\* the interpreter's string hashes decide the order a set of names is
\* iterated in; two processes may order the same names in opposite ways
HashSeeds == {0, 1}

\* the items of seq without repetitions, first occurrences in order
RECURSIVE Distinct(_)
Distinct(seq) ==
    IF seq = <<>> THEN <<>>
    ELSE LET front == Distinct(SubSeq(seq, 1, Len(seq) - 1))
             last == seq[Len(seq)]
         IN  IF \E i \in 1..Len(front) : front[i] = last THEN front
             ELSE Append(front, last)

Reverse(seq) == [i \in 1..Len(seq) |-> seq[Len(seq) + 1 - i]]

\* list(set(items)): each item once, in the order of the hash table
list_set(items) ==
    IF hashseed = 0 THEN Distinct(items) ELSE Reverse(Distinct(items))

\* ', '.join(names)
RECURSIVE join(_)
join(names) ==
    IF names = <<>> THEN <<>>
    ELSE IF Len(names) = 1 THEN names[1]
    ELSE names[1] \o << ",", " " >> \o join(Tail(names))

\* the last amount instead of the sum
sum_amounts_last(payments_, i) ==
    IF i = 0 THEN FZero ELSE payments_[i].amount

\* sum(amt for _, amt in payments): the first i amounts added left to right
RECURSIVE sum_amounts(_, _)
sum_amounts(payments_, i) ==
    IF i = 0 THEN FZero
    ELSE FAdd(sum_amounts(payments_, i - 1), payments_[i].amount)

\* the methods counted instead of the entries
payment_detail_distinct(frame, r) ==
    LET cell == IF HasColumn(frame, PAYMENTS)
                THEN frame.rows[r][Loc(frame, PAYMENTS)] ELSE <<>>
        payments_ == parse_payments(cell).value
        methods_used == list_set([i \in 1..Len(payments_) |-> payments_[i].method])
        num_methods == Len(methods_used)
        total_paid == sum_amounts(payments_, Len(payments_))
    IN  << frame.rows[r][Loc(frame, ORDER_NO)], num_methods, total_paid,
           join(methods_used), payments_ >>

\* the body of the loop for one row
payment_detail(frame, r) ==
    LET cell == IF HasColumn(frame, PAYMENTS)
                THEN frame.rows[r][Loc(frame, PAYMENTS)] ELSE <<>>
        payments_ == parse_payments(cell).value
        num_methods == Len(payments_)
        total_paid == sum_amounts(payments_, Len(payments_))
        methods_used == list_set([i \in 1..Len(payments_) |-> payments_[i].method])
    IN  << frame.rows[r][Loc(frame, ORDER_NO)], num_methods, total_paid,
           join(methods_used), payments_ >>

payment_columns ==
    << ORDER_NO, << "Num_Payment_Methods" >>, << "Total_Paid" >>,
       << "Payment_Methods_Used" >>, << "Payment_Details" >> >>

\* row['Order No'] of a frame without that column is a KeyError; no rows
\* give pd.DataFrame([]), a frame without columns
process_payments_column(frame) ==
    IF frame.rows = <<>> THEN Returned(DataFrame(<<>>, <<>>, <<>>))
    ELSE IF ~HasColumn(frame, ORDER_NO) THEN Raised(KeyError)
    ELSE Returned(DataFrame(payment_columns,
                            << "int64", "int64", "float64", "str", "list" >>,
                            [r \in 1..Len(frame.rows) |-> payment_detail(frame, r)]))

\* frame[names]: a missing name is a KeyError
select_columns(frame, names) ==
    IF \E i \in 1..Len(names) : ~HasColumn(frame, names[i]) THEN KeyError
    ELSE [columns |-> names,
          dtypes |-> [i \in 1..Len(names) |-> frame.dtypes[Loc(frame, names[i])]],
          rows |-> [r \in 1..Len(frame.rows) |->
                      [i \in 1..Len(names) |-> frame.rows[r][Loc(frame, names[i])]]]]

\* the missing value merge fills a column of the given kind with
NullOf(dtype) ==
    IF dtype = "float64" THEN FNaN
    ELSE IF dtype = "int64" THEN NoHour
    ELSE IF dtype = "datetime64" THEN NaT
    ELSE IF dtype = "date" THEN NoDate
    ELSE IF dtype = "label" THEN NoLabel
    ELSE NaN

RECURSIVE Flatten(_)
Flatten(seqs) == IF seqs = <<>> THEN <<>> ELSE Head(seqs) \o Flatten(Tail(seqs))

\* every right row attached to every left row, whatever its key
merge_left_cross(left, right, name) ==
    LET rk == Loc(right, name)
        extra == {c \in 1..Len(right.columns) : c # rk}
        joined(r) ==
            [k \in 1..Len(right.rows) |-> left.rows[r] \o Select(right.rows[k], extra, 1)]
    IN  [columns |-> left.columns \o Select(right.columns, extra, 1),
         dtypes |-> left.dtypes \o Select(right.dtypes, extra, 1),
         rows |-> Flatten([r \in 1..Len(left.rows) |-> joined(r)])]

\* left.merge(right, on=name, how='left'): every left row in order, once
\* for each right row with the same key (in the right's order), or once
\* with nulls when no right row has its key
merge_left(left, right, name) ==
    LET lk == Loc(left, name)
        rk == Loc(right, name)
        extra == {c \in 1..Len(right.columns) : c # rk}
        joined(r) ==
            LET hits == {q \in 1..Len(right.rows) :
                            right.rows[q][rk] = left.rows[r][lk]}
                found == Select(right.rows, hits, 1)
            IN  IF hits = {}
                THEN << left.rows[r]
                        \o Select([c \in 1..Len(right.dtypes) |-> NullOf(right.dtypes[c])],
                                  extra, 1) >>
                ELSE [k \in 1..Len(found) |-> left.rows[r] \o Select(found[k], extra, 1)]
    IN  [columns |-> left.columns \o Select(right.columns, extra, 1),
         dtypes |-> left.dtypes \o Select(right.dtypes, extra, 1),
         rows |-> Flatten([r \in 1..Len(left.rows) |-> joined(r)])]

\* the three results, from the preprocessed frame and its payment table
payments_merged(pre, pay) ==
    IF pay.raised THEN Raised(KeyError)
    ELSE LET payment_df == pay.value
             picked == select_columns(payment_df,
                           << ORDER_NO, << "Num_Payment_Methods" >>, << "Total_Paid" >>,
                              << "Payment_Methods_Used" >> >>)
             num == Column(payment_df, << "Num_Payment_Methods" >>)
             multi_payment_count == Cardinality({r \in 1..Len(num) : num[r] > 1})
         IN  IF picked = KeyError \/ ~HasColumn(pre.df, ORDER_NO) THEN Raised(KeyError)
             ELSE Returned(
                    [df |-> merge_left(pre.df, picked, ORDER_NO),
                     payment_df |-> payment_df,
                     preprocessing_log |->
                         pre.log \o
                         << LogLine("Processed payments for orders", Len(payment_df.rows)),
                            LogLine("Identified orders with multiple payment methods",
                                    multi_payment_count) >>])

\* payment_df = process_payments_column(df) and what follows it
add_payment_info(pre) == payments_merged(pre, process_payments_column(pre.df))

\* run_full_preprocessing works on df.copy(): the caller's frame is not the
\* argument of preprocess_data
run_full_preprocessing(frame) == add_payment_info(preprocess_data(frame))

\* split_orders_by_amount: df['Order Amount'] of a frame without the column
\* is a KeyError; NaN is neither == 0 nor > 0
split_orders_by_amount(frame) ==
    IF ~HasColumn(frame, ORDER_AMOUNT) THEN Raised(KeyError)
    ELSE LET amount == Column(frame, ORDER_AMOUNT)
             zero == {r \in 1..Len(amount) : amount[r] = FZero}
             paid == {r \in 1..Len(amount) :
                         amount[r] # FNaN /\ FLess(FZero, amount[r])}
         IN  Returned([paid_orders |-> [frame EXCEPT !.rows = Select(frame.rows, paid, 1)],
                       zero_orders |-> [frame EXCEPT !.rows = Select(frame.rows, zero, 1)]])

(***************************************************************************)
(* parse_datetime_flexible and preprocess_sales_orders (streamlit_app.py   *)
(* and the events dashboard).                                              *)
(***************************************************************************)
sales_formats_to_try ==
    << FMT_DBY_IMP, FMT_MDY_HM, FMT_YMD_HMS, FMT_DMY_HM, FMT_YMD_HM >>
events_formats_to_try ==
    << FMT_DBY_IMP, FMT_MDY_HM, FMT_YMD_HMS, FMT_DMY_HM, FMT_YMD_HM, FMT_MDY_HMS >>
\* the day-first pattern listed before the month-first one
formats_to_try_dayfirst ==
    << FMT_DBY_IMP, FMT_DMY_HM, FMT_YMD_HMS, FMT_MDY_HM, FMT_YMD_HM >>

formats_to_try ==
    IF variant = "events" THEN events_formats_to_try ELSE sales_formats_to_try

\* one element under format='mixed', dayfirst=False: the layout is guessed
\* for this element alone, the month before the day where both could be
\* meant; the guess is modelled over the layouts of the exports
RECURSIVE infer_datetime(_, _)
infer_datetime(cell, i) ==
    IF i > Len(events_formats_to_try) THEN ValueError
    ELSE LET t == strptime(cell, events_formats_to_try[i])
         IN  IF t # ValueError THEN t ELSE infer_datetime(cell, i + 1)

\* pd.to_datetime(series, format='mixed', dayfirst=False): errors is left
\* at 'raise', so one element that cannot be read fails the call
to_datetime_mixed(values) ==
    datetime_result([r \in 1..Len(values) |->
                        IF isna(values[r]) \/ values[r] = <<>> THEN NaT
                        ELSE infer_datetime(values[r], 1)], "raise")

\* the format chosen for each element on its own
try_formats_each(values, i) == to_datetime_mixed(values)

\* for fmt in formats_to_try: try: return ... except: continue
RECURSIVE try_formats(_, _)
try_formats(values, i) ==
    IF i > Len(formats_to_try) THEN to_datetime_mixed(values)
    ELSE LET parsed == to_datetime(values, formats_to_try[i], "raise")
         IN  IF parsed.raised THEN try_formats(values, i + 1)   \* except: continue
             ELSE parsed

parse_datetime_flexible(series) == try_formats(series, 1)

\* get_business_date / get_business_hour of the script that is running
dashboard_get_business_date(dt) ==
    IF variant = "events" THEN events_get_business_date(dt)
    ELSE sales_get_business_date(dt)

\* A call of preprocess_sales_orders works on its argument: every
\* assignment lands in the caller's frame, which is also what it returns.
\* The outcome of a call is a record of the argument as the call left it
\* (arg), also when the call raised on the way, and what it returned or
\* raised (ret).
returned_frame(frame) == [arg |-> frame, ret |-> Returned(frame)]

\* df['Payment_Total'] = df['Payments'].apply(extract_payment_total)
add_payment_total(frame) ==
    IF HasColumn(frame, PAYMENTS)
    THEN SetColumn(frame, << "Payment_Total" >>, "float64",
                   Apply(Column(frame, PAYMENTS), extract_payment_total))
    ELSE frame

\* df['Order Amount'] = pd.to_numeric(..., errors='coerce').fillna(0)
clean_amount_columns(frame) ==
    IF HasColumn(frame, ORDER_AMOUNT)
    THEN SetColumn(frame, ORDER_AMOUNT, "float64",
                   fillna_0(to_numeric(Column(frame, ORDER_AMOUNT))))
    ELSE frame

\* Business_Date, Order_Month, Order_Hour, Business_Hour (the events
\* dashboard only) and Order_Day, from the parsed 'Order Time' column t
time_columns_added(frame, t) ==
    LET df3 == SetColumn(SetColumn(SetColumn(frame,
                   << "Business_Date" >>, "date", Apply(t, dashboard_get_business_date)),
                   << "Order_Month" >>, "label", Apply(t, dt_to_period_M_str)),
                   << "Order_Hour" >>, "int64", Apply(t, dt_hour))
    IN  SetColumn(IF variant = "events"
                  THEN SetColumn(df3, << "Business_Hour" >>, "int64",
                                 Apply(t, events_get_business_hour))
                  ELSE df3,
                  << "Order_Day" >>, "label", Apply(t, dt_day_name))

add_time_columns(frame) == time_columns_added(frame, Column(frame, ORDER_TIME))

\* df['Order Time'] = parse_datetime_flexible(df['Order Time']) and the
\* rest of the function; a ValueError of the parse leaves the function
order_time_parsed(frame, parsed) ==
    IF parsed.raised THEN [arg |-> frame, ret |-> Raised(ValueError)]
    ELSE returned_frame(
             add_payment_total(
                 clean_amount_columns(
                     add_time_columns(
                         SetColumn(frame, ORDER_TIME, "datetime64", parsed.value)))))

\* df['Order Time'] of a frame without that column is a KeyError
parse_order_time(frame) ==
    IF ~HasColumn(frame, ORDER_TIME) THEN [arg |-> frame, ret |-> Raised(KeyError)]
    ELSE order_time_parsed(frame, parse_datetime_flexible(Column(frame, ORDER_TIME)))

preprocess_sales_orders(arg) ==
    parse_order_time([arg EXCEPT !.columns = columns_str_strip(arg.columns)])

(***************************************************************************)
(* The pass over an uploaded batch.  The caller reads a table (batch),     *)
(* hands its frame (caller_df) to the pass of the script, may split the    *)
(* result by amount, and may upload the same table again, in the same      *)
(* interpreter process or in a new one.                                    *)
(***************************************************************************)
\* most rows of an uploaded batch
MaxBatch == 2

Stamp(y, mo, d, h, mi) ==
    [year |-> y, month |-> mo, day |-> d, hour |-> h, minute |-> mi, second |-> 0]

RawTimes ==
    { strftime(Stamp(2025, 5, 15, 2, 0), FMT_DBY_IMP, TRUE),    \* 15-May-2025 02:00 AM
      strftime(Stamp(2025, 1, 1, 0, 30), FMT_DBY_IMP, TRUE),    \* 01-Jan-2025 12:30 AM
      strftime(Stamp(2025, 6, 1, 7, 7), FMT_MDY_HM, FALSE),     \* 6/1/2025 7:07
      strftime(Stamp(2025, 1, 13, 2, 0), FMT_DMY_HM, FALSE),    \* 13/1/2025 2:00
      strftime(Stamp(2025, 1, 13, 2, 0), FMT_MDY_HM, FALSE),    \* 1/13/2025 2:00
      << >>,                                                    \* an empty cell
      << "?" >> }                                               \* not a date

RawAmounts ==
    { << "2", ".", "5" >>, << "0" >>, << "a", "b", "c" >>, NaN }

RawPayments ==
    { << "V", " ", "-", " ", "2", ".", "5", ",", " ", "C", " ", "-", " ", "1" >>,  \* V - 2.5, C - 1
      << "C", " ", "-", " ", "3", ",", " ", "V", " ", "-", " ", "1", ",", " ",
         "C", " ", "-", " ", "2" >>,                             \* C - 3, V - 1, C - 2
      << "C", " ", "-", " ", "a", "b", "c" >>,                   \* C - abc
      NaN }

\* an ordinary row
PlainRow ==
    [time |-> strftime(Stamp(2025, 5, 15, 2, 0), FMT_DBY_IMP, TRUE),
     amount |-> << "2", ".", "5" >>,
     payments |-> << "V", " ", "-", " ", "2", ".", "5", ",", " ", "C", " ", "-", " ", "1" >>]

\* The uploads tried: the rows of one upload differ from the ordinary row
\* in one column (the timestamps, the amounts or the payments) under a
\* header as exported or lacking that column, or they are ordinary rows
\* under a header padded with blanks.
Uploads ==
    { [rows |-> { PlainRow },
       shapes |-> { [spaced |-> TRUE, amount |-> TRUE, payments |-> TRUE] }],
      [rows |-> { [PlainRow EXCEPT !.time = t] : t \in RawTimes },
       shapes |-> { [spaced |-> FALSE, amount |-> TRUE, payments |-> TRUE] }],
      [rows |-> { [PlainRow EXCEPT !.amount = a] : a \in RawAmounts },
       shapes |-> { [spaced |-> FALSE, amount |-> TRUE, payments |-> TRUE],
                    [spaced |-> FALSE, amount |-> FALSE, payments |-> TRUE] }],
      [rows |-> { [PlainRow EXCEPT !.payments = p] : p \in RawPayments },
       shapes |-> { [spaced |-> FALSE, amount |-> TRUE, payments |-> TRUE],
                    [spaced |-> FALSE, amount |-> TRUE, payments |-> FALSE] }] }

Header(name, spaced) == IF spaced THEN << " " >> \o name \o << " " >> ELSE name

\* the table read from the upload: row r has order number nos[r]
Upload(shape, rows, nos) ==
    DataFrame(
        << Header(ORDER_NO, shape.spaced), Header(ORDER_TIME, shape.spaced) >>
            \o (IF shape.amount THEN << Header(ORDER_AMOUNT, shape.spaced) >> ELSE <<>>)
            \o (IF shape.payments THEN << Header(PAYMENTS, shape.spaced) >> ELSE <<>>),
        << "int64", "str" >>
            \o (IF shape.amount THEN << "str" >> ELSE <<>>)
            \o (IF shape.payments THEN << "str" >> ELSE <<>>),
        [r \in 1..Len(rows) |->
            << nos[r], rows[r].time >>
            \o (IF shape.amount THEN << rows[r].amount >> ELSE <<>>)
            \o (IF shape.payments THEN << rows[r].payments >> ELSE <<>>)])

\* order numbers of n rows: all different, or the last row repeating the
\* order number of the first
Numberings(n) ==
    { [r \in 1..n |-> r], [r \in 1..n |-> IF r = n THEN 1 ELSE r] }

InitRun ==
    /\ pc = "batch"
    /\ variant \in Variants
    /\ BUSINESS_DAY_START_HOUR = (IF variant = "events" THEN 5 ELSE 6)
    /\ order_time = NaT
    /\ business_date = NoDate
    /\ business_hour = NoHour
    /\ hour_label = NoLabel
    /\ PayIdle
    /\ SumIdle
    /\ hashseed \in (IF variant = "lounge" THEN HashSeeds ELSE {0})
    /\ \E n \in 1..MaxBatch : \E u \in Uploads : \E shape \in u.shapes :
       \E rows \in [1..n -> u.rows] :
       \E nos \in Numberings(n) :
          batch = Upload(shape, rows, nos)
    /\ caller_df = batch
    /\ result = NotRun
    /\ first_result = NotRun
    /\ orders_split = NotRun
    /\ LoadIdle

\* what a call left behind: the function called and its outcome
Ran(fn, out) == [ran |-> TRUE, fn |-> fn, out |-> out]

Finish(res) ==
    /\ result' = res
    /\ first_result' = (IF first_result.ran THEN first_result ELSE res)
    /\ pc' = (IF pc = "batch" THEN "ran" ELSE "reran")
    /\ UNCHANGED << timeVars, payVars, sumVars, loadVars, hashseed, batch, orders_split >>

\* app.py: df, payment_df, preprocessing_log = run_full_preprocessing(df_raw)
RunFullPreprocessing ==
    /\ pc \in {"batch", "again"}
    /\ variant = "lounge"
    /\ caller_df' = caller_df
    /\ Finish(Ran("run_full_preprocessing", run_full_preprocessing(caller_df)))

\* preprocess_data called on the caller's frame itself
PreprocessData ==
    /\ pc \in {"batch", "again"}
    /\ variant = "lounge"
    /\ \E call \in {preprocess_data(caller_df)} :
           /\ caller_df' = call.arg
           /\ Finish(Ran("preprocess_data",
                         Returned([df |-> call.df, preprocessing_log |-> call.log])))

\* the dashboards: preprocess_sales_orders(pd.read_csv(file))
PreprocessSalesOrders ==
    /\ pc \in {"batch", "again"}
    /\ variant \in {"sales", "events"}
    /\ \E call \in {preprocess_sales_orders(caller_df)} :
           /\ caller_df' = call.arg
           /\ Finish(Ran("preprocess_sales_orders", call.ret))

\* paid_orders, zero_orders = split_orders_by_amount(df)
SplitOrdersByAmount ==
    /\ pc = "ran"
    /\ result.fn \in {"run_full_preprocessing", "preprocess_data"}
    /\ ~result.out.raised
    /\ orders_split = NotRun
    /\ orders_split' = Ran("split_orders_by_amount",
                           split_orders_by_amount(result.out.value.df))
    /\ UNCHANGED << pc, timeVars, payVars, sumVars, loadVars, hashseed, batch, caller_df,
                    result, first_result >>

\* the same table is uploaded again
UploadAgain ==
    /\ pc = "ran"
    /\ caller_df' = batch
    /\ result' = NotRun
    /\ orders_split' = NotRun
    /\ pc' = "again"
    /\ UNCHANGED << timeVars, payVars, sumVars, loadVars, hashseed, batch, first_result >>

\* the program is started anew: another process, another hash seed (only
\* preprocessing.py iterates over a set)
Restart ==
    /\ pc = "again"
    /\ variant = "lounge"
    /\ hashseed' \in HashSeeds \ {hashseed}
    /\ UNCHANGED << pc, timeVars, payVars, sumVars, loadVars, batch, caller_df, result,
                    first_result, orders_split >>

NextRun ==
    \/ RunFullPreprocessing
    \/ PreprocessData
    \/ PreprocessSalesOrders
    \/ SplitOrdersByAmount
    \/ UploadAgain
    \/ Restart

SpecRun == InitRun /\ [][NextRun]_vars

(***************************************************************************)
(* Claims about the pass over a batch (checked under SpecRun).             *)
(***************************************************************************)
\* run_full_preprocessing has returned its three results
RunFullDone ==
    /\ pc \in {"ran", "reran"}
    /\ result.fn = "run_full_preprocessing"
    /\ ~result.out.raised

\* the cell of row r of a frame in the column called name
CellOf(frame, r, name) == frame.rows[r][Loc(frame, name)]

\* the uploaded table under its cleaned column names
Uploaded == [batch EXCEPT !.columns = columns_str_strip(batch.columns)]

\* the uploaded record with order number no: its first row of that number
RecordOf(no) ==
    CHOOSE r \in 1..Len(batch.rows) :
        /\ CellOf(Uploaded, r, ORDER_NO) = no
        /\ \A q \in 1..(r - 1) : CellOf(Uploaded, q, ORDER_NO) # no

\* the payment descriptor of that record, '' without a 'Payments' column
DescriptorOf(no) ==
    IF HasColumn(Uploaded, PAYMENTS) THEN CellOf(Uploaded, RecordOf(no), PAYMENTS)
    ELSE <<>>

\* the Payment Entries of that record
EntriesOfRecord(no) == parse_payments(DescriptorOf(no)).value

\* the number quoted by the log line of the given wording
LogNumber(log, text) ==
    LET i == CHOOSE k \in 1..Len(log) : log[k].text = text IN log[i].n

Arrangements(seq) ==
    {p \in [1..Len(seq) -> {seq[i] : i \in 1..Len(seq)}] :
        \A i, j \in 1..Len(seq) : p[i] = p[j] => i = j}

\* the method names of the record's Payment Entries, in entry order
MethodsOfRecord(no) ==
    [i \in 1..Len(EntriesOfRecord(no)) |-> EntriesOfRecord(no)[i].method]

\* C12: Payment_Methods_Used of every record lists each distinct method of
\* its Payment Entries exactly once, and the list is fixed by the sequence
\* of entries: every pass over the same records gives the same list.
C12_MethodsUsedStable ==
    RunFullDone =>
        LET details == result.out.value.payment_df
            first == first_result.out.value.payment_df
        IN  /\ \A r \in 1..Len(details.rows) :
                  \E p \in Arrangements(Distinct(MethodsOfRecord(CellOf(details, r, ORDER_NO)))) :
                      CellOf(details, r, << "Payment_Methods_Used" >>) = join(p)
            /\ first_result.fn = "run_full_preprocessing" =>
                  \A r \in 1..Len(details.rows) :
                      CellOf(details, r, << "Payment_Methods_Used" >>)
                        = CellOf(first, r, << "Payment_Methods_Used" >>)

\* preprocess_sales_orders has been called (it returned or raised)
DashboardDone ==
    /\ pc \in {"ran", "reran"}
    /\ result.fn = "preprocess_sales_orders"

\* the uploaded 'Order Time' texts
RawOrderTimes == Column(Uploaded, ORDER_TIME)

Missing(text) == isna(text) \/ text = <<>>

\* every element of the batch reads under the i-th pattern of the list
FitsBatch(i) ==
    \A r \in 1..Len(RawOrderTimes) :
        Missing(RawOrderTimes[r])
        \/ strptime(RawOrderTimes[r], formats_to_try[i]) # ValueError

\* C13: when some pattern of the ordered list reads every element of the
\* batch, the parsed column is the reading of every element under the first
\* such pattern: one pattern for the whole batch.
C13_BatchLevelFormat ==
    (DashboardDone /\ \E i \in 1..Len(formats_to_try) : FitsBatch(i)) =>
        LET k == CHOOSE i \in 1..Len(formats_to_try) :
                     FitsBatch(i) /\ \A j \in 1..(i - 1) : ~FitsBatch(j)
        IN  /\ ~result.out.raised
            /\ \A r \in 1..Len(RawOrderTimes) :
                   CellOf(result.out.value, r, ORDER_TIME)
                     = (IF Missing(RawOrderTimes[r]) THEN NaT
                        ELSE strptime(RawOrderTimes[r], formats_to_try[k]))

\* C13 witness: 6/1/2025 7:07 uploaded together with 13/1/2025 2:00 is read
\* day-first like its neighbour, as 6 January.
C13_Witness ==
    /\ DashboardDone
    /\ ~result.out.raised
    /\ Len(RawOrderTimes) = 2
    /\ RawOrderTimes[1] = strftime(Stamp(2025, 6, 1, 7, 7), FMT_MDY_HM, FALSE)
    /\ RawOrderTimes[2] = strftime(Stamp(2025, 1, 13, 2, 0), FMT_DMY_HM, FALSE)
    /\ CellOf(result.out.value, 1, ORDER_TIME) = Stamp(2025, 1, 6, 7, 7)
    /\ CellOf(result.out.value, 2, ORDER_TIME) = Stamp(2025, 1, 13, 2, 0)

\* a pass has been called (it returned or raised)
PassDone == pc \in {"ran", "reran"}

\* the uploaded 'Order Time' text of the record with order number no
RawTimeOf(no) == CellOf(Uploaded, RecordOf(no), ORDER_TIME)

\* C14: the timestamp parsing step never raises.  In preprocessing.py an
\* element that the pattern does not read becomes null and the others are
\* parsed; in the dashboards, when no pattern reads the whole batch, every
\* unparseable, empty or missing element becomes null, every other element
\* is parsed, and the batch succeeds.
C14_ParsingNeverRaises ==
    PassDone =>
        /\ ~result.out.raised
        /\ result.fn # "preprocess_sales_orders" =>
              \A r \in 1..Len(result.out.value.df.rows) :
                  LET text == RawTimeOf(CellOf(result.out.value.df, r, ORDER_NO))
                  IN  CellOf(result.out.value.df, r, ORDER_TIME)
                        = (IF Missing(text) \/ strptime(text, FMT_DBY_IMP) = ValueError
                           THEN NaT ELSE strptime(text, FMT_DBY_IMP))
        /\ (result.fn = "preprocess_sales_orders"
            /\ \A i \in 1..Len(formats_to_try) : ~FitsBatch(i)) =>
              \A r \in 1..Len(RawOrderTimes) :
                  CellOf(result.out.value, r, ORDER_TIME)
                    = (IF Missing(RawOrderTimes[r])
                          \/ infer_datetime(RawOrderTimes[r], 1) = ValueError
                       THEN NaT ELSE infer_datetime(RawOrderTimes[r], 1))

\* the frame of rows the pass returned
OutFrame ==
    IF result.fn = "preprocess_sales_orders" THEN result.out.value
    ELSE result.out.value.df

\* the names the running script gives the business date and hour columns
DateColumn ==
    IF variant = "lounge" THEN << "Business Date" >> ELSE << "Business_Date" >>
HourColumn ==
    IF variant = "lounge" THEN << "Business Hour" >> ELSE << "Business_Hour" >>

\* the cell is the null of its column
NullCell(frame, r, name) == isnull(frame.dtypes[Loc(frame, name)], CellOf(frame, r, name))

\* C15: a null timestamp propagates as null and does not raise: a batch
\* whose elements are dates or missing passes, and every record whose
\* parsed timestamp is null has a null business date and, where the script
\* computes one, a null business hour.
C15_NullPropagates ==
    PassDone =>
        /\ (\A r \in 1..Len(RawOrderTimes) :
               Missing(RawOrderTimes[r]) \/ infer_datetime(RawOrderTimes[r], 1) # ValueError)
              => ~result.out.raised
        /\ ~result.out.raised =>
              \A r \in 1..Len(OutFrame.rows) :
                  CellOf(OutFrame, r, ORDER_TIME) = NaT =>
                      /\ NullCell(OutFrame, r, DateColumn)
                      /\ HasColumn(OutFrame, HourColumn) => NullCell(OutFrame, r, HourColumn)

\* C15 witness: streamlit_app.py, whose get_business_date has no null
\* guard, leaves NaT as the business date of an empty timestamp next to a
\* dated record.
C15_Witness ==
    /\ DashboardDone
    /\ variant = "sales"
    /\ ~result.out.raised
    /\ Len(OutFrame.rows) = 2
    /\ RawOrderTimes[1] = << >>
    /\ CellOf(OutFrame, 1, ORDER_TIME) = NaT
    /\ CellOf(OutFrame, 1, << "Business_Date" >>) = NaT
    /\ CellOf(OutFrame, 2, << "Business_Date" >>) = [year |-> 2025, month |-> 5, day |-> 14]

\* the uploaded row that row r of the returned frame comes from:
\* preprocessing.py keeps the first row of each order number, the dashboards
\* keep every row
RawRowOf(r) ==
    IF variant = "lounge" THEN RecordOf(CellOf(OutFrame, r, ORDER_NO)) ELSE r

\* the uploaded amount of a row is missing, blank or not a number
NoAmount(q) == to_numeric_cell(CellOf(Uploaded, q, ORDER_AMOUNT)) = FNaN

\* C16: a record whose amount is absent, blank or non-numeric has Order
\* Amount 0 after the pass, and splitting the orders by amount is not an
\* error and puts the record with the zero-amount orders.
C16_MissingAmountIsZero ==
    /\ (PassDone /\ ~result.out.raised /\ HasColumn(Uploaded, ORDER_AMOUNT)) =>
           \A r \in 1..Len(OutFrame.rows) :
               NoAmount(RawRowOf(r)) =>
                   /\ HasColumn(OutFrame, ORDER_AMOUNT)
                   /\ CellOf(OutFrame, r, ORDER_AMOUNT) = FZero
    /\ orders_split.ran =>
           /\ ~orders_split.out.raised
           /\ \A r \in 1..Len(OutFrame.rows) :
                  NoAmount(RawRowOf(r)) =>
                      \E z \in 1..Len(orders_split.out.value.zero_orders.rows) :
                          orders_split.out.value.zero_orders.rows[z] = OutFrame.rows[r]

\* C18: running the pass twice over the same uploaded batch gives identical
\* output: the second run of a function returns what its first run returned.
C18_SecondRunIdentical ==
    (pc = "reran" /\ result.fn = first_result.fn) => result.out = first_result.out

\* the caller's table is as it was uploaded: the same column names, the
\* same column types and the same cells
CallerUntouched ==
    /\ caller_df.columns = batch.columns
    /\ caller_df.dtypes = batch.dtypes
    /\ caller_df.rows = batch.rows

\* C19: every normalization operation is pure with respect to its
\* argument: when run_full_preprocessing, preprocess_data or
\* preprocess_sales_orders has finished, the caller's table is unchanged.
C19_ArgumentUntouched == PassDone => CallerUntouched

\* the name the running script gives the day-of-week column
DayColumn ==
    IF variant = "lounge" THEN << "Day of Week" >> ELSE << "Order_Day" >>

\* the day name of a calendar date, and the name of the day after it
DayNameOf(d) == DayNames[((ToOrdinal(d) + 6) % 7) + 1]
DayNameAfter(d) == DayNames[((ToOrdinal(d) + 7) % 7) + 1]

\* 'YYYY-MM' of a year and a month
MonthText(y, m) == ToString(y) \o "-" \o (IF m < 10 THEN "0" ELSE "") \o ToString(m)

\* C20: the day-of-week and month labels of a record are those of the
\* calendar date of its timestamp: below the day-start hour the day name is
\* that of the day after the business date, from the day-start hour on it
\* is that of the business date, and the month is the timestamp's month.
C20_LabelsOfTimestamp ==
    (PassDone /\ ~result.out.raised) =>
        \A r \in 1..Len(OutFrame.rows) :
            LET t == CellOf(OutFrame, r, ORDER_TIME)
                bd == CellOf(OutFrame, r, DateColumn)
            IN  t # NaT =>
                  /\ CellOf(OutFrame, r, DayColumn) =
                        (IF t.hour < DayStartHour THEN DayNameAfter(bd) ELSE DayNameOf(bd))
                  /\ HasColumn(OutFrame, << "Order_Month" >>) =>
                        CellOf(OutFrame, r, << "Order_Month" >>) = MonthText(t.year, t.month)

\* C20 witness: the order of 01-Jan-2025 12:30 AM belongs to the business
\* day Tuesday 31 December 2024 and is labelled Wednesday, 2025-01.
C20_Witness ==
    /\ DashboardDone
    /\ ~result.out.raised
    /\ \E r \in 1..Len(OutFrame.rows) :
          /\ CellOf(OutFrame, r, ORDER_TIME) # NaT
          /\ CellOf(OutFrame, r, ORDER_TIME).hour = 0
          /\ CellOf(OutFrame, r, << "Business_Date" >>) = [year |-> 2024, month |-> 12, day |-> 31]
          /\ CellOf(OutFrame, r, << "Order_Day" >>) = "Wednesday"
          /\ CellOf(OutFrame, r, << "Order_Month" >>) = "2025-01"

\* preprocess_data has returned
PreprocessDataDone == PassDone /\ result.fn = "preprocess_data" /\ ~result.out.raised

\* row r of the returned frame carries the cells of the uploaded row q, as
\* far as the columns of the upload are still in the frame
SameRecord(r, q) ==
    /\ HasColumn(OutFrame, PAYMENTS) =>
           CellOf(OutFrame, r, PAYMENTS) = CellOf(Uploaded, q, PAYMENTS)
    /\ HasColumn(OutFrame, ORDER_AMOUNT) =>
           CellOf(OutFrame, r, ORDER_AMOUNT) =
               to_numeric_cell(CellOf(Uploaded, q, ORDER_AMOUNT))
    /\ CellOf(OutFrame, r, ORDER_TIME) =
           (IF to_datetime_cell(CellOf(Uploaded, q, ORDER_TIME), FMT_DBY_IMP) = ValueError
            THEN NaT
            ELSE to_datetime_cell(CellOf(Uploaded, q, ORDER_TIME), FMT_DBY_IMP))

\* C21: after preprocess_data on a table with an 'Order No' column no two
\* rows share an Order No, every Order No of the upload is still present,
\* and the row kept for an Order No is its first occurrence in the upload.
C21_FirstOccurrenceKept ==
    PreprocessDataDone =>
        /\ \A r, q \in 1..Len(OutFrame.rows) :
               CellOf(OutFrame, r, ORDER_NO) = CellOf(OutFrame, q, ORDER_NO) => r = q
        /\ \A q \in 1..Len(Uploaded.rows) :
               \E r \in 1..Len(OutFrame.rows) :
                   CellOf(OutFrame, r, ORDER_NO) = CellOf(Uploaded, q, ORDER_NO)
        /\ \A r \in 1..Len(OutFrame.rows) :
               SameRecord(r, RecordOf(CellOf(OutFrame, r, ORDER_NO)))

\* C21 witness: two uploaded rows of order 1 with different payments; the
\* one row returned has the payments of the first.
C21_Witness ==
    /\ PreprocessDataDone
    /\ Len(Uploaded.rows) = 2
    /\ CellOf(Uploaded, 1, ORDER_NO) = CellOf(Uploaded, 2, ORDER_NO)
    /\ HasColumn(Uploaded, PAYMENTS)
    /\ CellOf(Uploaded, 1, PAYMENTS) # CellOf(Uploaded, 2, PAYMENTS)
    /\ Len(OutFrame.rows) = 1
    /\ HasColumn(OutFrame, PAYMENTS)
    /\ CellOf(OutFrame, 1, PAYMENTS) = CellOf(Uploaded, 1, PAYMENTS)

(***************************************************************************)
(* Claims about the two totals of a payment descriptor (checked under      *)
(* SpecPay).                                                               *)
(***************************************************************************)
\* both functions have been applied to the descriptor
Totalled == pc = "totalled"

\* Total_Paid as process_payments_column computes it from the parser's
\* entries
TotalPaid == sum_amounts(payments.value, Len(payments.value))

\* C22: for every payment descriptor the total computed by
\* extract_payment_total (Payment_Total) equals the sum of the amounts of
\* parse_payments' entries for the same descriptor (Total_Paid).
C22_TotalsAgree == Totalled => payment_total = TotalPaid

\* the text after the last hyphen of a comma-separated piece
TailOf(piece) == AmountAt(piece, LastHyphen(piece))

\* the numbers after the last hyphens of the first n pieces, added in order
RECURSIVE TailSum(_, _)
TailSum(pieces, n) ==
    IF n = 0 THEN FZero
    ELSE IF Hyphens(pieces[n]) = {} THEN TailSum(pieces, n - 1)
    ELSE FAdd(TailSum(pieces, n - 1), float(TailOf(pieces[n])))

\* some piece with a hyphen has no number after its last hyphen
BadTail(pieces) ==
    \E i \in 1..Len(pieces) : Hyphens(pieces[i]) # {} /\ ~IsNumber(TailOf(pieces[i]))

\* C23: extract_payment_total returns the sum, over the comma-separated
\* tokens that contain a hyphen, of the number after the token's last
\* hyphen; if the text after the last hyphen of any such token is not a
\* number the result for the whole record is 0; no exception escapes.
C23_ExtractPaymentTotal ==
    (Totalled /\ ~isna(payment_str)) =>
        /\ payment_total # ValueError
        /\ payment_total =
              (IF BadTail(CommaPieces(payment_str)) THEN FZero
               ELSE TailSum(CommaPieces(payment_str), Len(CommaPieces(payment_str))))

\* C23 witness: 'V - 1, C - abc': the amount of the well-formed first token
\* is discarded with the malformed second one.
C23_Witness ==
    /\ Totalled
    /\ ~isna(payment_str)
    /\ Len(CommaPieces(payment_str)) = 2
    /\ Hyphens(CommaPieces(payment_str)[1]) # {}
    /\ IsNumber(TailOf(CommaPieces(payment_str)[1]))
    /\ float(TailOf(CommaPieces(payment_str)[1])) # FZero
    /\ Hyphens(CommaPieces(payment_str)[2]) # {}
    /\ ~IsNumber(TailOf(CommaPieces(payment_str)[2]))
    /\ payment_total = FZero

\* the readings of a text month-first and day-first
MonthFirst(text) == strptime(text, FMT_MDY_HM)
DayFirst(text) == strptime(text, FMT_DMY_HM)

\* the batch is made of all-numeric slash dates
SlashBatch ==
    \A r \in 1..Len(RawOrderTimes) :
        /\ ~Missing(RawOrderTimes[r])
        /\ MonthFirst(RawOrderTimes[r]) # ValueError
           \/ DayFirst(RawOrderTimes[r]) # ValueError

AllMonthFirst ==
    \A r \in 1..Len(RawOrderTimes) : MonthFirst(RawOrderTimes[r]) # ValueError
AllDayFirst ==
    \A r \in 1..Len(RawOrderTimes) : DayFirst(RawOrderTimes[r]) # ValueError

\* row r is valid under both patterns and was read day-first
ReadDayFirst(r) ==
    /\ MonthFirst(RawOrderTimes[r]) # ValueError
    /\ DayFirst(RawOrderTimes[r]) # ValueError
    /\ CellOf(result.out.value, r, ORDER_TIME) = DayFirst(RawOrderTimes[r])
    /\ CellOf(result.out.value, r, ORDER_TIME) # MonthFirst(RawOrderTimes[r])

UploadedOrders == {CellOf(Uploaded, q, ORDER_NO) : q \in 1..Len(Uploaded.rows)}

\* the ways ', '.join may list the distinct methods of a record
MethodLists(no) == {join(a) : a \in Arrangements(Distinct(MethodsOfRecord(no)))}

\* C25: after run_full_preprocessing the table has exactly one row for each
\* distinct Order No of the upload, and the row's Num_Payment_Methods,
\* Total_Paid and Payment_Methods_Used are those of the Payments descriptor
\* of that order: the merge neither duplicates nor drops rows nor attaches
\* another order's payment fields.
C25_MergeKeepsRows ==
    RunFullDone =>
        LET out == result.out.value.df
        IN  /\ Len(out.rows) = Cardinality(UploadedOrders)
            /\ \A no \in UploadedOrders :
                   \E r \in 1..Len(out.rows) : CellOf(out, r, ORDER_NO) = no
            /\ \A r \in 1..Len(out.rows) :
                   LET no == CellOf(out, r, ORDER_NO)
                   IN  /\ CellOf(out, r, << "Num_Payment_Methods" >>)
                             = Len(EntriesOfRecord(no))
                       /\ CellOf(out, r, << "Total_Paid" >>)
                             = sum_amounts(EntriesOfRecord(no), Len(EntriesOfRecord(no)))
                       /\ CellOf(out, r, << "Payment_Methods_Used" >>) \in MethodLists(no)

\* C25 witness: two orders with different payments, each row with the
\* figures of its own descriptor.
C25_Witness ==
    /\ RunFullDone
    /\ Cardinality(UploadedOrders) = 2
    /\ Len(result.out.value.df.rows) = 2
    /\ CellOf(result.out.value.df, 1, << "Num_Payment_Methods" >>) = 2
    /\ CellOf(result.out.value.df, 2, << "Num_Payment_Methods" >>) = 3
    /\ CellOf(result.out.value.df, 1, << "Total_Paid" >>)
          # CellOf(result.out.value.df, 2, << "Total_Paid" >>)

(***************************************************************************)
(* Claims relating the per-record figures of process_payments_column to    *)
(* the summary of get_payment_method_summary over the same records         *)
(* (checked under SpecSummary).                                            *)
(***************************************************************************)
\* the records of the table as the frame process_payments_column is given
RecordsFrame ==
    IF df # <<>> /\ "Payments" \in DOMAIN df[1]
    THEN DataFrame(<< ORDER_NO, PAYMENTS >>, << "int64", "object" >>,
                   [r \in 1..Len(df) |-> << df[r].OrderNo, df[r].Payments >>])
    ELSE DataFrame(<< ORDER_NO >>, << "int64" >>,
                   [r \in 1..Len(df) |-> << df[r].OrderNo >>])

\* its 'Num_Payment_Methods' and 'Total_Paid' columns, record by record
PaymentInfo == process_payments_column(RecordsFrame).value
NumPaymentMethods == [r \in 1..Len(PaymentInfo.rows) |-> PaymentInfo.rows[r][2]]
TotalPaidColumn == [r \in 1..Len(PaymentInfo.rows) |-> PaymentInfo.rows[r][3]]

\* the sum of a column of integers and of a column of floats, top to bottom
RECURSIVE SumCounts(_)
SumCounts(column) ==
    IF column = <<>> THEN 0
    ELSE SumCounts(SubSeq(column, 1, Len(column) - 1)) + column[Len(column)]

RECURSIVE SumTotals(_)
SumTotals(column) ==
    IF column = <<>> THEN FZero
    ELSE FAdd(SumTotals(SubSeq(column, 1, Len(column) - 1)), column[Len(column)])

TransactionCounts == [i \in 1..Len(summary.rows) |-> summary.rows[i].count]
TotalAmounts == [i \in 1..Len(summary.rows) |-> summary.rows[i].total]

\* C26 (as claimed): over the same records, the Transaction Counts of the
\* summary add up to the sum of Num_Payment_Methods, and its Total Amounts
\* add up to the sum of Total_Paid.
C26_Conservation ==
    summary.called =>
        /\ SumCounts(TransactionCounts) = SumCounts(NumPaymentMethods)
        /\ SumTotals(TotalAmounts) = SumTotals(TotalPaidColumn)

\* no addition of any of the amounts rounds, however they are grouped:
\* every sum of some of them is a float
NoRoundingAtAll(entries) ==
    \A S \in (SUBSET (1..Len(entries))) \ { {} } :
        LET lo == CHOOSE x \in {entries[i].amount.e : i \in S} :
                      \A y \in {entries[i].amount.e : i \in S} : x <= y
        IN  Representable(ExactSum(S, entries, lo), lo)

\* C26 (amended): the counts are conserved always, and the totals whenever
\* no floating-point addition of the amounts rounds.
C26_ConservationExact ==
    summary.called =>
        /\ SumCounts(TransactionCounts) = SumCounts(NumPaymentMethods)
        /\ NoRoundingAtAll(AllEntries(df)) =>
               SumTotals(TotalAmounts) = SumTotals(TotalPaidColumn)

\* C26 witness: two records, one of them paid by two methods, two methods
\* in the summary, no rounding, and both sums agree on 3 entries.
C26_Witness ==
    /\ summary.called
    /\ Len(df) = 2
    /\ Len(summary.rows) = 2
    /\ \E r \in 1..Len(NumPaymentMethods) : NumPaymentMethods[r] = 2
    /\ NoRoundingAtAll(AllEntries(df))
    /\ SumCounts(TransactionCounts) = 3
    /\ SumCounts(NumPaymentMethods) = 3
    /\ SumTotals(TotalAmounts) = SumTotals(TotalPaidColumn)
    /\ SumTotals(TotalAmounts) # FZero

\* the row the dashboard shows as 'Top Payment Method'
TopPaymentMethod == summary.rows[1]

\* C27: the rows of the summary are in non-increasing order of Total
\* Amount, so the first row of a non-empty summary is a method whose total
\* is the maximum over all methods.
C27_SortedByTotal ==
    summary.called =>
        LET rows == summary.rows
            es == AllEntries(df)
        IN  /\ \A i \in 1..(Len(rows) - 1) : ~FLess(rows[i].total, rows[i + 1].total)
            /\ rows # <<>> =>
                  /\ TopPaymentMethod.method \in MethodsOf(es)
                  /\ \A m \in MethodsOf(es) :
                        ~FLess(TopPaymentMethod.total, SumAmounts(EntriesWith(es, m)))

\* C27 witness: the method met first (C, total 1) has the smaller total and
\* the summary shows the other one (V, total 10) first.
C27_Witness ==
    /\ summary.called
    /\ Len(summary.rows) = 2
    /\ AllEntries(df)[1].method = << "C" >>
    /\ TopPaymentMethod.method = << "V" >>
    /\ FLess(summary.rows[2].total, TopPaymentMethod.total)

(***************************************************************************)
(* Loading the uploaded sales-orders files and the figures of the Sales    *)
(* Overview tab: streamlit_app.py (variant "sales") and the events         *)
(* dashboard of preprocessing.py (variant "events").                       *)
(***************************************************************************)
\* most files uploaded at once
MaxFiles == 2

\* pd.concat(frames, ignore_index=True) of frames with the same columns:
\* the rows of the first, then those of the second, and so on
RECURSIVE concat(_)
concat(frames) ==
    IF Len(frames) = 1 THEN frames[1]
    ELSE [frames[1] EXCEPT !.rows = frames[1].rows \o concat(Tail(frames)).rows]

\* pd.DataFrame()
EmptyFrame == DataFrame(<<>>, <<>>, <<>>)

\* temp_df = pd.read_csv(file); temp_df['Source_File'] = file.name
with_source_file(file) ==
    SetColumn(file.table, << "Source_File" >>, "str",
              [r \in 1..Len(file.table.rows) |-> file.name])

\* streamlit_app.py: the files are concatenated as read and the whole is
\* preprocessed, outside the try
sales_load_orders(files) ==
    IF files = <<>> THEN Returned(EmptyFrame)
    ELSE preprocess_sales_orders(
             concat([i \in 1..Len(files) |-> with_source_file(files[i])])).ret

\* the events dashboard: orders_list, the preprocessed files; a file whose
\* preprocess_sales_orders raised is reported and left out
RECURSIVE orders_list(_, _)
orders_list(files, i) ==
    IF i > Len(files) THEN <<>>
    ELSE (IF preprocess_sales_orders(files[i].table).ret.raised THEN <<>>
          ELSE << preprocess_sales_orders(files[i].table).ret.value >>)
         \o orders_list(files, i + 1)

\* df_orders.drop_duplicates(subset=['Order No'], keep='first') when the
\* combined table has an 'Order No' column
remove_duplicate_orders(frame) ==
    IF HasColumn(frame, ORDER_NO) THEN drop_duplicates(frame, ORDER_NO) ELSE frame

\* the events dashboard: the preprocessed files are concatenated and the
\* duplicates by Order No removed
events_load_orders(files) ==
    IF orders_list(files, 1) = <<>> THEN Returned(EmptyFrame)
    ELSE Returned(remove_duplicate_orders(concat(orders_list(files, 1))))

\* has_orders = len(df_orders) > 0
has_orders == ~df_orders.raised /\ Len(df_orders.value.rows) > 0

BUSINESS_DATE == << "Business_Date" >>

\* the non-null dates of df_orders['Business_Date']
business_dates(frame) ==
    {d \in {Column(frame, BUSINESS_DATE)[r] : r \in 1..Len(frame.rows)} :
        ~isnull("date", d)}

\* df_orders['Business_Date'].min() and .max(), the defaults of the two
\* date inputs
min_date(frame) ==
    CHOOSE d \in business_dates(frame) :
        \A e \in business_dates(frame) : ToOrdinal(d) <= ToOrdinal(e)
max_date(frame) ==
    CHOOSE d \in business_dates(frame) :
        \A e \in business_dates(frame) : ToOrdinal(e) <= ToOrdinal(d)

\* df_orders[(Business_Date >= start_date) & (Business_Date <= end_date)]
\* (a comparison with a missing date is False)
filter_by_date(frame, start_date, end_date) ==
    [frame EXCEPT !.rows =
        Select(frame.rows,
               {r \in 1..Len(frame.rows) :
                   /\ ~isnull("date", Column(frame, BUSINESS_DATE)[r])
                   /\ ToOrdinal(start_date) <= ToOrdinal(Column(frame, BUSINESS_DATE)[r])
                   /\ ToOrdinal(Column(frame, BUSINESS_DATE)[r]) <= ToOrdinal(end_date)},
               1)]

\* filtered_orders under the default dates
filtered_orders(frame) ==
    IF business_dates(frame) = {} THEN [frame EXCEPT !.rows = <<>>]
    ELSE filter_by_date(frame, min_date(frame), max_date(frame))

\* Series.nunique(): the distinct non-null values
nunique(values) ==
    Cardinality({values[r] : r \in 1..Len(values)} \ {NoHour})

\* Series.sum() of a float column: NaN skipped, top to bottom
RECURSIVE series_sum(_)
series_sum(values) ==
    IF values = <<>> THEN FZero
    ELSE IF values[Len(values)] = FNaN THEN series_sum(SubSeq(values, 1, Len(values) - 1))
    ELSE FAdd(series_sum(SubSeq(values, 1, Len(values) - 1)), values[Len(values)])

\* float / int (the float is not negative, the int is positive)
truediv(x, n) ==
    IF x.e >= 0 THEN FDivide(x.m * Pow(2, x.e), n, 0)
    ELSE FDivide(x.m, n * Pow(2, 0 - x.e), 0)

\* total_orders: the events dashboard counts the rows when there is no
\* 'Order No' column
total_orders(frame) ==
    IF HasColumn(frame, ORDER_NO) THEN nunique(Column(frame, ORDER_NO))
    ELSE IF variant = "events" THEN Len(frame.rows)
    ELSE KeyError

total_revenue(frame) ==
    IF HasColumn(frame, ORDER_AMOUNT) THEN series_sum(Column(frame, ORDER_AMOUNT))
    ELSE FZero

\* avg_order_value = total_revenue / total_orders if total_orders > 0 else 0
avg_order_value(revenue, orders) ==
    IF orders > 0 THEN truediv(revenue, orders) ELSE FZero

\* the KPIs of the Sales Overview tab over the filtered orders
sales_overview(filtered) ==
    [total_orders |-> total_orders(filtered),
     total_revenue |-> total_revenue(filtered),
     avg_order_value |-> avg_order_value(total_revenue(filtered), total_orders(filtered))]

\* The files tried are exports of one report (same columns, one timestamp
\* layout): an order, the same order exported again later, other orders,
\* an order repeated within a file, and a file with an unreadable time.
MayTime == strftime(Stamp(2025, 5, 15, 2, 0), FMT_DBY_IMP, TRUE)
JuneTime == strftime(Stamp(2025, 6, 1, 7, 7), FMT_DBY_IMP, TRUE)
OrderRow(t, a) == [PlainRow EXCEPT !.time = t, !.amount = a]
ExportShape == [spaced |-> FALSE, amount |-> TRUE, payments |-> TRUE]
ExportFile(name, rows, nos) == [name |-> name, table |-> Upload(ExportShape, rows, nos)]

SalesFiles ==
    { ExportFile(<< "a" >>, << OrderRow(MayTime, << "2", ".", "5" >>) >>, << 1 >>),
      ExportFile(<< "b" >>, << OrderRow(JuneTime, << "2", ".", "5" >>) >>, << 1 >>),
      ExportFile(<< "c" >>, << OrderRow(MayTime, << "1", "0" >>),
                               OrderRow(JuneTime, << "0" >>) >>, << 2, 3 >>),
      ExportFile(<< "d" >>, << OrderRow(JuneTime, << "2", ".", "5" >>),
                               OrderRow(JuneTime, << "1", "0" >>) >>, << 2, 1 >>),
      ExportFile(<< "e" >>, << OrderRow(<< "?" >>, << "2", ".", "5" >>) >>, << 4 >>),
      ExportFile(<< "f" >>, << OrderRow(MayTime, << "2", ".", "5" >>),
                               OrderRow(MayTime, << "2", ".", "5" >>) >>, << 5, 5 >>) }

InitLoad ==
    /\ pc = "files"
    /\ variant \in {"sales", "events"}
    /\ BUSINESS_DAY_START_HOUR = (IF variant = "events" THEN 5 ELSE 6)
    /\ order_time = NaT
    /\ business_date = NoDate
    /\ business_hour = NoHour
    /\ hour_label = NoLabel
    /\ PayIdle
    /\ SumIdle
    /\ RunIdle
    /\ \E n \in 0..MaxFiles : sales_orders_files \in [1..n -> SalesFiles]
    /\ df_orders = NotRun
    /\ kpis = NotRun

\* if sales_orders_files: ... df_orders = ...
LoadSalesOrders ==
    /\ pc = "files"
    /\ df_orders' = (IF variant = "sales" THEN sales_load_orders(sales_orders_files)
                     ELSE events_load_orders(sales_orders_files))
    /\ pc' = "loaded"
    /\ UNCHANGED << sales_orders_files, kpis, timeVars, payVars, sumVars, runVars >>

\* with tabs[0]: if has_orders: ... the KPIs
SalesOverview ==
    /\ pc = "loaded"
    /\ has_orders
    /\ kpis' = sales_overview(filtered_orders(df_orders.value))
    /\ pc' = "shown"
    /\ UNCHANGED << sales_orders_files, df_orders, timeVars, payVars, sumVars, runVars >>

NextLoad == LoadSalesOrders \/ SalesOverview

SpecLoad == InitLoad /\ [][NextLoad]_vars

(***************************************************************************)
(* Claims about the combined orders table (checked under SpecLoad).        *)
(***************************************************************************)
\* the uploaded files that preprocess_sales_orders reads without raising,
\* each preprocessed on its own, one after the other in upload order
ReadableFiles ==
    SelectSeq(sales_orders_files,
              LAMBDA f : ~preprocess_sales_orders(f.table).ret.raised)
AllOrders ==
    concat([i \in 1..Len(ReadableFiles) |->
               preprocess_sales_orders(ReadableFiles[i].table).ret.value])

\* the order numbers of a table and the first row of each
OrderNumbers(all) == {CellOf(all, r, ORDER_NO) : r \in 1..Len(all.rows)}
FirstRowOf(all, no) ==
    CHOOSE r \in 1..Len(all.rows) :
        /\ CellOf(all, r, ORDER_NO) = no
        /\ \A q \in 1..(r - 1) : CellOf(all, q, ORDER_NO) # no

\* the amounts of the first occurrences, in the order of the table
FirstAmounts(all) ==
    Select(Column(all, ORDER_AMOUNT),
           {FirstRowOf(all, no) : no \in OrderNumbers(all)}, 1)

\* the combined table holds every order number of the table all once, as
\* its first row in all
HoldsFirstOccurrences(all) ==
    \A no \in OrderNumbers(all) :
        \E r \in 1..Len(df_orders.value.rows) :
            /\ CellOf(df_orders.value, r, ORDER_NO) = no
            /\ \A q \in 1..Len(df_orders.value.rows) :
                  CellOf(df_orders.value, q, ORDER_NO) = no => q = r
            /\ \A name \in {ORDER_TIME, ORDER_AMOUNT} :
                  CellOf(df_orders.value, r, name) = CellOf(all, FirstRowOf(all, no), name)

\* the figures count every order number of all once
CountsOrdersOnce(all) ==
    /\ kpis.total_orders = Cardinality(OrderNumbers(all))
    /\ kpis.total_revenue = series_sum(FirstAmounts(all))
    /\ kpis.avg_order_value
          = truediv(series_sum(FirstAmounts(all)), Cardinality(OrderNumbers(all)))

\* C29: an Order No that appears in more than one uploaded file is held
\* once in the combined orders table, as its first occurrence in upload
\* order; total revenue counts its amount once and the average order value
\* is total revenue divided by the number of distinct orders.
C29_OrderHeldOnce ==
    (pc \in {"loaded", "shown"} /\ has_orders) =>
        \E all \in {AllOrders} :
            /\ HoldsFirstOccurrences(all)
            /\ pc = "shown" => CountsOrdersOnce(all)

(***************************************************************************)
(* The components together.                                                *)
(***************************************************************************)
Init == InitTime \/ InitPay \/ InitSummary \/ InitRun \/ InitLoad
Next == NextTime \/ NextPay \/ NextSummary \/ NextRun \/ NextLoad
Spec == Init /\ [][Next]_vars

====
